---- MODULE Spec2Model ----
(***************************************************************************)
(* The View endpoint (class App, src/src/app.ts) and the Host endpoint     *)
(* (class AppBridge, src/src/app-bridge.ts) of the MCP Apps protocol,      *)
(* connected by one channel adapter each over a FIFO message channel, with *)
(* the upstream MCP client the Host forwards to.                           *)
(*                                                                         *)
(* Both classes extend the SDK's Protocol class; the parts of Protocol the *)
(* two classes call (connect, request, notification, close, the handler    *)
(* tables and the dispatch of inbound messages) are modelled where the     *)
(* classes use them.                                                       *)
(***************************************************************************)
EXTENDS Integers, Sequences, FiniteSets, TLC

VARIABLES
  app,              \* the App instance: its own fields and its Protocol fields
  appTransport,     \* the adapter handed to App.connect()
  bridge,           \* the AppBridge instance
  bridgeTransport,  \* the adapter handed to AppBridge.connect()
  client,           \* the upstream MCP client the AppBridge was constructed with
  v2h,              \* messages in flight, View -> Host (FIFO)
  h2v,              \* messages in flight, Host -> View (FIFO)
  viewLog,          \* what the caller of App.connect() and its adapter observe, in order
  ctxCallback,      \* the last invocation of the onhostcontextchanged callback
  requests,         \* the promises of the requests the View application issued
  env               \* the applications around the two endpoints: what they did so far

vars == <<app, appTransport, bridge, bridgeTransport, client, v2h, h2v,
          viewLog, ctxCallback, requests, env>>

----------------------------------------------------------------------------
(* Bounds of the model *)

MaxCtxNotifs == 2     \* host-context-changed notifications the Host sends
MaxRequests == 1      \* requests the View application issues
MaxHostRequests == 2  \* requests and size notifications the Host sends to the View
MaxListChanged == 1   \* list-changed notifications arriving at the Host endpoint
MaxObservations == 2  \* callbacks of the ResizeObserver
MaxAssignments == 2   \* callbacks the View application assigns to one setter
MaxUpdates == 2       \* updateModelContext calls the View application issues
MaxForeign == 2       \* messages other windows post to the two endpoints' windows
MaxSends == 2         \* messages, links and log entries a connected View sends
MaxSetups == 2        \* calls of setupSizeChangedNotifications() by the View application
MaxRegistrations == 2 \* registrations of one tool's metadata, normalized again each time

----------------------------------------------------------------------------
(* Wire names *)

LATEST_PROTOCOL_VERSION == "2025-11-21"
SUPPORTED_PROTOCOL_VERSIONS == {LATEST_PROTOCOL_VERSION}

\* Versions a View build may carry as its own latest version.
Versions == {"2025-11-21", "2099-01-01", "2024-01-01"}

M_Initialize == "ui/initialize"
M_Initialized == "ui/notifications/initialized"
M_HostContextChanged == "ui/notifications/host-context-changed"
M_Teardown == "ui/resource-teardown"
M_Ping == "ping"
M_Cancelled == "notifications/cancelled"
M_SizeChanged == "ui/notifications/size-changed"
M_SizeChange == "ui/notifications/size-change"
M_ToolInput == "ui/notifications/tool-input"
M_ToolInputPartial == "ui/notifications/tool-input-partial"
M_ToolResult == "ui/notifications/tool-result"
M_ToolCancelled == "ui/notifications/tool-cancelled"
M_Message == "ui/message"
M_LoggingMessage == "notifications/message"
M_RequestDisplayMode == "ui/request-display-mode"
M_OpenLink == "ui/open-link"
M_UpdateModelContext == "ui/update-model-context"
M_ToolsCall == "tools/call"
M_ToolsList == "tools/list"
M_ResourcesList == "resources/list"
M_ResourceTemplatesList == "resources/templates/list"
M_PromptsList == "prompts/list"
M_ToolListChanged == "notifications/tools/list_changed"
M_ResourceListChanged == "notifications/resources/list_changed"
M_PromptListChanged == "notifications/prompts/list_changed"

Families == {"tools", "resources", "prompts"}

\* The kinds of inbound message the View's application assigns a callback for.
NotificationKinds ==
  {M_ToolInput, M_ToolInputPartial, M_ToolResult, M_ToolCancelled, M_HostContextChanged}
RequestKinds == {M_Teardown, M_ToolsCall, M_ToolsList}
Kinds == NotificationKinds \cup RequestKinds

\* JSON-RPC error codes the Protocol base class replies with.
MethodNotFound == "MethodNotFound"
InternalError == "InternalError"

----------------------------------------------------------------------------
(* Values *)

Absent == "absent"          \* a key an object does not have
NoParams == [none |-> TRUE]

\* McpUiHostContext: every field independently optional.
CtxFields == {"theme", "locale"}
CtxValues(f) == IF f = "theme" THEN {"light", "dark"} ELSE {"en-US"}
Contexts == {c \in [CtxFields -> {Absent, "light", "dark", "en-US"}] :
               \A f \in CtxFields : c[f] = Absent \/ c[f] \in CtxValues(f)}
EmptyContext == [f \in CtxFields |-> Absent]

\* An optional field of an object: undefined, or a value.
Undefined(v) == [def |-> FALSE, v |-> v]
Some(v) == [def |-> TRUE, v |-> v]

NoCaps == [openLinks |-> FALSE, serverTools |-> FALSE]
NoInfo == [name |-> "", version |-> ""]

Msg(kind, id, method, params) ==
  [kind |-> kind, id |-> id, method |-> method, params |-> params]
Request(id, method, params) == Msg("request", id, method, params)
Notification(method, params) == Msg("notification", 0, method, params)
Result(id, method, result) == Msg("result", id, method, result)
ErrorReply(id, method, code) == Msg("error", id, method, [code |-> code])

----------------------------------------------------------------------------
(* The channel adapter (a PostMessageTransport-style transport) *)

NewTransport(startFails, failAt) ==
  [state |-> "new", startCalls |-> 0, closeCalls |-> 0, sends |-> 0,
   startFails |-> startFails, failAt |-> failAt]

\* start(): registers the listener, or throws.
TransportStart(t) ==
  [t EXCEPT !.startCalls = @ + 1,
            !.state = IF t.startFails THEN @ ELSE "started"]

\* send(message): the failAt-th call throws, every other call delivers.
SendThrows(t) == t.failAt = t.sends + 1
TransportSend(t) ==
  [t EXCEPT !.sends = IF t.sends < t.failAt THEN @ + 1 ELSE @]

\* close(): unregisters the listener and fires onclose.
TransportClose(t) ==
  [t EXCEPT !.closeCalls = @ + 1, !.state = "closed"]

\* The windows a message event can come from: the Host's window, the View's
\* iframe, and any other browsing context.
HostWindow == "host"
ViewWindow == "view"
OtherWindow == "other"

\* new PostMessageTransport(window.parent, window.parent) in the View and
\* new PostMessageTransport(iframe.contentWindow, iframe.contentWindow) in the
\* Host: the second argument is the expected source.
AppEventSource == HostWindow
BridgeEventSource == ViewWindow

\* The message listener: while registered, it hands a message on when the
\* event's source is the expected source, and drops it otherwise.
TransportDeliversAnySource(t, eventSource, source) == t.state = "started"
TransportDelivers(t, eventSource, source) ==
  t.state = "started" /\ source = eventSource

----------------------------------------------------------------------------
(* class App: construction *)

\* The callback the application assigns to onteardown: it returns a result or a
\* promise of one (async), and it completes or throws (its promise rejects).
TeardownCallbacks == [set : {TRUE}, async : BOOLEAN, fails : BOOLEAN]
NoTeardownCallback == [set |-> FALSE, async |-> FALSE, fails |-> FALSE]

\* The options argument of the constructor: not passed, an object that does not
\* mention autoResize, or an object that sets it.
OptionArgs == {"notPassed", "noAutoResize", "autoResizeTrue", "autoResizeFalse"}

\* private options: AppOptions = { autoResize: true }: the default stands in for
\* a missing argument only. The value is this.options.autoResize.
ConstructorOptions(arg) ==
  CASE arg = "notPassed" -> "true"
    [] arg = "noAutoResize" -> "undefined"
    [] arg = "autoResizeTrue" -> "true"
    [] arg = "autoResizeFalse" -> "false"

\* The closure of setupSizeChangedNotifications(), and what it did so far:
\* frames are the requestAnimationFrame callbacks not yet run, measured is the
\* last measurement, sent and lastSent the calls of sendSizeChanged.
NoResize ==
  [started |-> FALSE, scheduled |-> FALSE, lastWidth |-> 0, lastHeight |-> 0,
   frames |-> 0, measurements |-> 0, measured |-> [width |-> 0, height |-> 0],
   sent |-> 0, lastSent |-> Undefined([width |-> 0, height |-> 0])]

\* constructor(_appInfo, _capabilities, options): the ping handler and the
\* default onhostcontextchanged handler are installed.
NewApp(tools, version) ==
  [capabilities |-> [tools |-> tools],
   protocolVersion |-> version,
   hostCapabilities |-> Undefined(NoCaps),
   hostInfo |-> Undefined(NoInfo),
   hostContext |-> Undefined(EmptyContext),
   requestHandlers |-> {M_Ping},
   notificationHandlers |-> {M_HostContextChanged},
   userCallback |-> FALSE,
   assigned |-> [k \in Kinds |-> 0],
   callback |-> [k \in Kinds |-> 0],
   invoked |-> <<>>,
   callbackCalls |-> 0,
   onteardown |-> NoTeardownCallback,
   teardownRuns |-> {},
   optionsArg |-> "notPassed",
   autoResize |-> ConstructorOptions("notPassed"),
   resize |-> NoResize,
   setups |-> <<>>,
   transport |-> FALSE,
   pending |-> {},
   nextId |-> 0,
   pc |-> "unconnected",
   initError |-> "none",
   connectError |-> "none"]

getHostCapabilities == app.hostCapabilities
getHostVersion == app.hostInfo
getHostContext == app.hostContext

----------------------------------------------------------------------------
(* class App: the host-context-changed handler installed by the setter *)

\* { ...this._hostContext, ...n.params }: the own keys of params overwrite.
MergeContextWholesale(old, params) == Some(params)
MergeContext(old, params) ==
  Some([f \in CtxFields |-> IF params[f] # Absent THEN params[f] ELSE old.v[f]])

\* The handler: merge, then callback(n.params). The result is the new cached
\* context and what the callback was given and could read through getHostContext().
HostContextChangedCallbackFirst(old, params) ==
  [hostContext |-> MergeContext(old, params),
   callback |-> [arg |-> params, saw |-> old]]
HostContextChangedHandler(old, params) ==
  LET merged == MergeContext(old, params)
  IN  [hostContext |-> merged,
       callback |-> [arg |-> params, saw |-> merged]]

----------------------------------------------------------------------------
(* Protocol (base class of App): close and the rejection of pending requests *)

\* What a promise holds: nothing yet, a result, or the error it rejected with.
NoValue == [isError |-> FALSE, content |-> "", error |-> "none"]
Failure(error) == [isError |-> FALSE, content |-> "", error |-> error]

RejectPending(calls, error) ==
  {IF c.state = "pending" THEN [c EXCEPT !.state = "rejected", !.value = error] ELSE c
     : c \in calls}

\* _onclose(): every response handler is dropped, the transport forgotten.
AppOnClose(a) == [a EXCEPT !.transport = FALSE, !.pending = {}]

----------------------------------------------------------------------------
(* class App: connect() *)

\* catch (error) { void this.close(); throw error; }
\* close() is Protocol.close(): this._transport?.close().
ConnectCatchNoClose(a, t, error) ==
  /\ app' = [a EXCEPT !.pc = "failed", !.connectError = error]
  /\ appTransport' = t
  /\ viewLog' = Append(viewLog, "connect.rejected")
  /\ requests' = requests
ConnectCatch(a, t, error) ==
  /\ app' = [(IF a.transport THEN AppOnClose(a) ELSE a)
               EXCEPT !.pc = "failed", !.connectError = error]
  /\ appTransport' = IF a.transport THEN TransportClose(t) ELSE t
  /\ viewLog' = viewLog \o (IF a.transport THEN <<"transport.close">> ELSE <<>>)
                        \o <<"connect.rejected">>
  /\ requests' = IF a.transport THEN RejectPending(requests, Failure("ConnectionClosed"))
                  ELSE requests

\* connect(transport): await super.connect(transport), which records the
\* transport and awaits transport.start(). This await is outside the try block.
AppConnect ==
  /\ app.pc = "unconnected"
  /\ appTransport' = TransportStart(appTransport)
  /\ IF appTransport.startFails
       THEN /\ app' = [app EXCEPT !.transport = TRUE, !.pc = "failed",
                                  !.connectError = "StartError"]
            /\ viewLog' = viewLog \o <<"transport.start", "connect.rejected">>
       ELSE /\ app' = [app EXCEPT !.transport = TRUE, !.pc = "connecting"]
            /\ viewLog' = Append(viewLog, "transport.start")
  /\ UNCHANGED <<bridge, bridgeTransport, client, v2h, h2v, ctxCallback, requests, env>>

\* The ui/initialize request of connect(): Protocol.request() registers the
\* response handler and sends; a send that throws rejects the request.
InitializeRequest(a) ==
  Request(a.nextId, M_Initialize,
          [appCapabilities |-> a.capabilities, protocolVersion |-> a.protocolVersion])

AppSendInitialize ==
  /\ app.pc = "connecting"
  /\ IF ~app.transport
       THEN /\ ConnectCatch([app EXCEPT !.initError = "NotConnected"], appTransport,
                            "NotConnected")
            /\ v2h' = v2h
       ELSE IF SendThrows(appTransport)
       THEN /\ ConnectCatch([app EXCEPT !.initError = "SendError", !.nextId = @ + 1],
                            TransportSend(appTransport), "SendError")
            /\ v2h' = v2h
       ELSE /\ app' = [app EXCEPT !.pc = "handshaking", !.nextId = @ + 1,
                         !.pending = @ \cup {[id |-> app.nextId, method |-> M_Initialize]}]
            /\ appTransport' = TransportSend(appTransport)
            /\ v2h' = Append(v2h, InitializeRequest(app))
            /\ UNCHANGED <<viewLog, requests>>
  /\ UNCHANGED <<bridge, bridgeTransport, client, h2v, ctxCallback, env>>

\* connect() of another App in the View's window (the document constructs a
\* second App, or is loaded again): its ui/initialize request reaches the same
\* Host endpoint, with the capabilities that App declares. Its request ids are
\* written from SecondAppIds on, to tell its replies from those of the first App.
SecondAppIds == 100
AppConnectAgain ==
  /\ env.requests < MaxSends
  /\ app.transport
  /\ ~SendThrows(appTransport)
  /\ \E tools \in BOOLEAN :
       v2h' = Append(v2h, Request(SecondAppIds + env.requests, M_Initialize,
                                  [appCapabilities |-> [tools |-> tools],
                                   protocolVersion |-> app.protocolVersion]))
  /\ appTransport' = TransportSend(appTransport)
  /\ env' = [env EXCEPT !.requests = @ + 1]
  /\ UNCHANGED <<app, bridge, bridgeTransport, client, h2v, viewLog, ctxCallback, requests>>

\* The request's timeout: the response handler is dropped, a cancelled
\* notification is sent (a failure of that send is only reported to onerror),
\* and the request rejects, which connect() catches.
AppInitializeTimeout ==
  /\ app.pc = "handshaking"
  /\ \E p \in app.pending :
       /\ p.method = M_Initialize
       /\ ConnectCatch([app EXCEPT !.pending = @ \ {p}, !.initError = "RequestTimeout"],
                       TransportSend(appTransport), "RequestTimeout")
       /\ v2h' = IF SendThrows(appTransport) THEN v2h
                 ELSE Append(v2h, Notification(M_Cancelled, [requestId |-> p.id]))
  /\ UNCHANGED <<bridge, bridgeTransport, client, h2v, ctxCallback, env>>

AppOnInitializeSettledUnstored(a, m) ==
  IF m.kind = "error" \/ ~m.params.wellFormed \/ SendThrows(appTransport)
    THEN /\ ConnectCatch([a EXCEPT !.initError = "InvalidResult"], appTransport,
                         "InvalidResult")
         /\ v2h' = v2h
    ELSE /\ app' = [a EXCEPT !.pc = "notifying"]
         /\ appTransport' = TransportSend(appTransport)
         /\ v2h' = Append(v2h, Notification(M_Initialized, NoParams))
         /\ UNCHANGED <<viewLog, requests>>

\* The continuation of connect() once the initialize request settles.
\* A result that does not match McpUiInitializeResultSchema rejects the request.
AppOnInitializeSettled(a, m) ==
  IF m.kind = "error"
    THEN /\ ConnectCatch([a EXCEPT !.initError = m.params.code], appTransport,
                         m.params.code)
         /\ v2h' = v2h
  ELSE IF ~m.params.wellFormed
    THEN /\ ConnectCatch([a EXCEPT !.initError = "InvalidResult"], appTransport,
                         "InvalidResult")
         /\ v2h' = v2h
  ELSE LET stored == [a EXCEPT !.hostCapabilities = Some(m.params.hostCapabilities),
                               !.hostInfo = Some(m.params.hostInfo),
                               !.hostContext = Some(m.params.hostContext)]
       IN  IF SendThrows(appTransport)
             THEN /\ ConnectCatch(stored, TransportSend(appTransport), "SendError")
                  /\ v2h' = v2h
             ELSE /\ app' = [stored EXCEPT !.pc = "notifying"]
                  /\ appTransport' = TransportSend(appTransport)
                  /\ v2h' = Append(v2h, Notification(M_Initialized, NoParams))
                  /\ UNCHANGED <<viewLog, requests>>

\* if (this.options?.autoResize)
AutoResize(a) == a.autoResize = "true"

\* const sendBodySizeChanged = () => { if (scheduled) return; scheduled = true;
\* requestAnimationFrame(...) }
SendBodySizeChangedUnguarded(r) ==
  [r EXCEPT !.scheduled = TRUE, !.frames = @ + 1]
SendBodySizeChanged(r) ==
  IF r.scheduled THEN r ELSE [r EXCEPT !.scheduled = TRUE, !.frames = @ + 1]

\* setupSizeChangedNotifications(): a fresh closure, a first call of
\* sendBodySizeChanged(), and the ResizeObserver on html and body.
SetupWithoutFirstMeasurement == [NoResize EXCEPT !.started = TRUE]
SetupSizeChangedNotificationsShared ==
  LET prev == IF app.setups # <<>> THEN app.setups[Len(app.setups)].closure ELSE app.resize
  IN  SendBodySizeChanged([NoResize EXCEPT !.started = TRUE,
                                           !.scheduled = prev.scheduled,
                                           !.lastWidth = prev.lastWidth,
                                           !.lastHeight = prev.lastHeight])
SetupSizeChangedNotifications ==
  SendBodySizeChanged([NoResize EXCEPT !.started = TRUE])

\* connect() resumes after the initialized notification was handed to the adapter.
AppConnectFinish ==
  /\ app.pc = "notifying"
  /\ app' = [app EXCEPT !.pc = "ready",
                        !.resize = IF AutoResize(app) THEN SetupSizeChangedNotifications
                                   ELSE @]
  /\ viewLog' = Append(viewLog, "connect.resolved")
  /\ UNCHANGED <<appTransport, bridge, bridgeTransport, client, v2h, h2v, ctxCallback,
                 requests, env>>

----------------------------------------------------------------------------
(* class App: the resize subsystem *)

\* What the document measures to while html is fit-content: the rect's width
\* and height in half pixels, the scrollbar's width in pixels.
Layouts == [width : {0, 1, 2}, height : {0, 3}, scrollbar : {0, 1}]

\* Math.ceil of a number of half pixels, in pixels.
Ceil(halves) == (halves + 1) \div 2

\* Math.ceil(rect.width + scrollbarWidth), Math.ceil(rect.height)
MeasuredWidth(layout) == Ceil(layout.width + 2 * layout.scrollbar)
MeasuredHeight(layout) == Ceil(layout.height)

\* if (width !== lastWidth || height !== lastHeight)
SizeDiffersAlways(width, height, lastWidth, lastHeight) == TRUE
SizeDiffers(width, height, lastWidth, lastHeight) ==
  width # lastWidth \/ height # lastHeight

\* The ResizeObserver calls sendBodySizeChanged.
AppResizeObserved ==
  /\ app.resize.started
  /\ env.observations < MaxObservations
  /\ app' = [app EXCEPT !.resize = SendBodySizeChanged(@)]
  /\ env' = [env EXCEPT !.observations = @ + 1]
  /\ UNCHANGED <<appTransport, bridge, bridgeTransport, client, v2h, h2v, viewLog,
                 ctxCallback, requests>>

\* The animation frame callback: measure, and sendSizeChanged({ width, height })
\* when the size differs from the remembered one. sendSizeChanged is
\* this.notification(...), which hands nothing to the adapter without a connection.
AppAnimationFrame ==
  /\ app.resize.frames > 0
  /\ \E layout \in Layouts :
       LET width == MeasuredWidth(layout)
           height == MeasuredHeight(layout)
           r == [app.resize EXCEPT !.scheduled = FALSE, !.frames = @ - 1,
                                   !.measurements = @ + 1,
                                   !.measured = [width |-> width, height |-> height]]
       IN  IF SizeDiffers(width, height, r.lastWidth, r.lastHeight)
             THEN /\ app' = [app EXCEPT !.resize =
                               [r EXCEPT !.lastWidth = width, !.lastHeight = height,
                                         !.sent = @ + 1,
                                         !.lastSent = Some([width |-> width,
                                                            height |-> height])]]
                  /\ appTransport' = IF app.transport THEN TransportSend(appTransport)
                                     ELSE appTransport
                  /\ v2h' = IF app.transport /\ ~SendThrows(appTransport)
                              THEN Append(v2h, Notification(M_SizeChanged,
                                            [width |-> width, height |-> height]))
                              ELSE v2h
             ELSE /\ app' = [app EXCEPT !.resize = r]
                  /\ UNCHANGED <<appTransport, v2h>>
  /\ UNCHANGED <<bridge, bridgeTransport, client, h2v, viewLog, ctxCallback, requests, env>>

\* The requestAnimationFrame callback of one closure, for the layout it finds:
\* the closure afterwards, and whether it called sendSizeChanged.
FrameCallback(r, layout) ==
  LET width == MeasuredWidth(layout)
      height == MeasuredHeight(layout)
      m == [r EXCEPT !.scheduled = FALSE, !.frames = @ - 1, !.measurements = @ + 1,
                     !.measured = [width |-> width, height |-> height]]
  IN  IF SizeDiffers(width, height, r.lastWidth, r.lastHeight)
        THEN [closure |-> [m EXCEPT !.lastWidth = width, !.lastHeight = height,
                                    !.sent = @ + 1,
                                    !.lastSent = Some([width |-> width, height |-> height])],
              sends |-> TRUE]
        ELSE [closure |-> m, sends |-> FALSE]

\* const cleanup = app.setupSizeChangedNotifications(): a call by the View
\* application. Each call has its own closure and its own ResizeObserver;
\* observing says that the observer has not been disconnected.
AppSetupSizeChangedNotifications ==
  /\ Len(app.setups) < MaxSetups
  /\ app' = [app EXCEPT !.setups =
                Append(@, [observing |-> TRUE, closure |-> SetupSizeChangedNotifications])]
  /\ UNCHANGED <<appTransport, bridge, bridgeTransport, client, v2h, h2v, viewLog,
                 ctxCallback, requests, env>>

\* The ResizeObserver of one call reports a change.
AppSetupResizeObserved ==
  /\ env.observations < MaxObservations
  /\ \E i \in 1..Len(app.setups) :
       /\ app.setups[i].observing
       /\ app' = [app EXCEPT !.setups[i].closure = SendBodySizeChanged(@)]
  /\ env' = [env EXCEPT !.observations = @ + 1]
  /\ UNCHANGED <<appTransport, bridge, bridgeTransport, client, v2h, h2v, viewLog,
                 ctxCallback, requests>>

\* The animation frame callback of one call's closure runs.
AppSetupAnimationFrame ==
  /\ \E i \in 1..Len(app.setups) :
       /\ app.setups[i].closure.frames > 0
       /\ \E layout \in Layouts :
            LET f == FrameCallback(app.setups[i].closure, layout)
            IN  /\ app' = [app EXCEPT !.setups[i].closure = f.closure]
                /\ appTransport' = IF f.sends /\ app.transport
                                     THEN TransportSend(appTransport) ELSE appTransport
                /\ v2h' = IF f.sends /\ app.transport /\ ~SendThrows(appTransport)
                            THEN Append(v2h, Notification(M_SizeChanged, f.closure.lastSent.v))
                            ELSE v2h
  /\ UNCHANGED <<bridge, bridgeTransport, client, h2v, viewLog, ctxCallback, requests, env>>

\* cleanup(): () => resizeObserver.disconnect()
AppSetupCleanup ==
  /\ \E i \in 1..Len(app.setups) :
       /\ app.setups[i].observing
       /\ app' = [app EXCEPT !.setups[i].observing = FALSE]
  /\ UNCHANGED <<appTransport, bridge, bridgeTransport, client, v2h, h2v, viewLog,
                 ctxCallback, requests, env>>

----------------------------------------------------------------------------
(* class App: handler registration *)

\* assertRequestHandlerCapability(method): TRUE when it returns, FALSE when it throws.
AssertRequestHandlerCapabilityNoCheck(a, method) ==
  method \in {M_ToolsCall, M_ToolsList, M_Ping, M_Teardown}
AssertRequestHandlerCapability(a, method) ==
  CASE method \in {M_ToolsCall, M_ToolsList} -> a.capabilities.tools
    [] method \in {M_Ping, M_Teardown} -> TRUE
    [] OTHER -> FALSE

\* Protocol.setRequestHandler(schema, handler): asserts the capability for the
\* schema's method, then stores the handler; nothing is stored when it throws.
SetRequestHandler(a, method) ==
  IF AssertRequestHandlerCapability(a, method)
    THEN [a EXCEPT !.requestHandlers = @ \cup {method}]
    ELSE a

\* Protocol.setNotificationHandler(schema, handler): stores the handler under
\* the schema's method, in place of the handler stored there before.
SetNotificationHandlerUnstored(a, method) == a
SetNotificationHandler(a, method) ==
  [a EXCEPT !.notificationHandlers = @ \cup {method}]

\* A setter (set ontoolinput ... set onlisttools): the handler it installs calls
\* the callback assigned. assigned[method] numbers the callbacks the application
\* assigned so far (the latest is callback number assigned[method]), and
\* callback[method] is the callback the installed handler calls. A setter whose
\* registration throws installs nothing.
AssignCallbackKeepsFirst(a, method) ==
  IF method \in RequestKinds /\ ~AssertRequestHandlerCapability(a, method) THEN a
  ELSE [(IF method \in NotificationKinds THEN SetNotificationHandler(a, method)
         ELSE SetRequestHandler(a, method))
          EXCEPT !.assigned[method] = @ + 1,
                 !.callback[method] = IF @ = 0 THEN a.assigned[method] + 1 ELSE @,
                 !.userCallback = @ \/ method = M_HostContextChanged]
AssignCallback(a, method) ==
  IF method \in RequestKinds /\ ~AssertRequestHandlerCapability(a, method) THEN a
  ELSE [(IF method \in NotificationKinds THEN SetNotificationHandler(a, method)
         ELSE SetRequestHandler(a, method))
          EXCEPT !.assigned[method] = @ + 1,
                 !.callback[method] = a.assigned[method] + 1,
                 !.userCallback = @ \/ method = M_HostContextChanged]

\* The application's callback is called by the handler of an inbound message.
Invoke(a, m) ==
  IF a.callback[m.method] = 0 THEN a
  ELSE [a EXCEPT !.invoked = Append(@, [method |-> m.method,
                                        callback |-> a.callback[m.method],
                                        params |-> m.params])]

\* set oncalltool / set onlisttools
AppSetToolHandler ==
  /\ \E method \in {M_ToolsCall, M_ToolsList} :
       /\ method \notin app.requestHandlers
       /\ ~env.triedHandler[method]
       /\ app' = AssignCallback(app, method)
       /\ env' = [env EXCEPT !.triedHandler[method] = TRUE]
  /\ UNCHANGED <<appTransport, bridge, bridgeTransport, client, v2h, h2v, viewLog,
                 ctxCallback, requests>>

\* set onteardown: setRequestHandler(McpUiResourceTeardownRequestSchema,
\* (request, extra) => callback(request.params, extra))
AppSetOnTeardown ==
  /\ ~app.onteardown.set
  /\ \E callback \in TeardownCallbacks :
       app' = [AssignCallback(app, M_Teardown) EXCEPT !.onteardown = callback]
  /\ UNCHANGED <<appTransport, bridge, bridgeTransport, client, v2h, h2v, viewLog,
                 ctxCallback, requests, env>>

\* set onhostcontextchanged: the application's callback replaces the default one.
AppSetOnHostContextChanged ==
  /\ ~app.userCallback
  /\ app' = AssignCallback(app, M_HostContextChanged)
  /\ UNCHANGED <<appTransport, bridge, bridgeTransport, client, v2h, h2v, viewLog,
                 ctxCallback, requests, env>>

\* Any of the setters the run is about, assigned for the first time or again;
\* the onteardown callback assigned here is synchronous and returns {}.
AppSetCallback ==
  /\ \E method \in env.kinds :
       /\ app.assigned[method] < MaxAssignments
       /\ LET a == AssignCallback(app, method)
          IN  app' = IF method = M_Teardown /\ a.assigned[method] > app.assigned[method]
                       THEN [a EXCEPT !.onteardown =
                               [set |-> TRUE, async |-> FALSE, fails |-> FALSE]]
                       ELSE a
  /\ UNCHANGED <<appTransport, bridge, bridgeTransport, client, v2h, h2v, viewLog,
                 ctxCallback, requests, env>>

----------------------------------------------------------------------------
(* class App: outbound requests *)

ToolParams ==
  {[name |-> "get-weather", arguments |-> "NYC"],
   [name |-> "get-time", arguments |-> "SF"]}

\* Protocol.request(): without a transport the promise rejects; otherwise the
\* response handler is registered under a fresh id and the request is sent.
AppRequestWith(method, params, sent) ==
  LET id == app.nextId
      call == [call |-> env.requests, id |-> id, method |-> method, params |-> params,
               state |-> "pending", value |-> NoValue]
  IN  IF ~app.transport
        THEN /\ requests' = requests \cup
                   {[call EXCEPT !.id = -1, !.state = "rejected",
                                 !.value = Failure("NotConnected")]}
             /\ UNCHANGED <<app, appTransport, v2h>>
      ELSE IF SendThrows(appTransport)
        THEN /\ requests' = requests \cup
                   {[call EXCEPT !.state = "rejected", !.value = Failure("SendError")]}
             /\ app' = [app EXCEPT !.nextId = @ + 1]
             /\ appTransport' = TransportSend(appTransport)
             /\ v2h' = v2h
      ELSE /\ requests' = requests \cup {call}
           /\ app' = [app EXCEPT !.nextId = @ + 1,
                        !.pending = @ \cup {[id |-> id, method |-> method]}]
           /\ appTransport' = TransportSend(appTransport)
           /\ v2h' = Append(v2h, Request(id, method, sent))

\* A request whose params are the params of the call.
AppRequest(method, params) == AppRequestWith(method, params, params)

\* callServerTool(params): this.request({ method: "tools/call", params }, ...)
AppCallServerTool ==
  /\ env.requests < MaxRequests
  /\ \E params \in ToolParams : AppRequest(M_ToolsCall, params)
  /\ env' = [env EXCEPT !.requests = @ + 1]
  /\ UNCHANGED <<bridge, bridgeTransport, client, h2v, viewLog, ctxCallback>>

\* this.request(...) of a resources or prompts listing by the View application.
ListMethods == {M_ResourcesList, M_ResourceTemplatesList, M_PromptsList}
AppRequestList ==
  /\ env.requests < MaxRequests
  /\ \E method \in ListMethods : AppRequest(method, NoParams)
  /\ env' = [env EXCEPT !.requests = @ + 1]
  /\ UNCHANGED <<bridge, bridgeTransport, client, h2v, viewLog, ctxCallback>>

\* sendMessage(params): this.request({ method: "ui/message", params }, McpUiMessageResultSchema)
MessageParams == [role |-> "user", content |-> "hello"]
AppSendMessage ==
  /\ env.requests < MaxRequests
  /\ AppRequest(M_Message, MessageParams)
  /\ env' = [env EXCEPT !.requests = @ + 1]
  /\ UNCHANGED <<bridge, bridgeTransport, client, h2v, viewLog, ctxCallback>>

\* openLink(params): this.request({ method: "ui/open-link", params }, McpUiOpenLinkResultSchema)
OpenLinkParams == [url |-> "https://docs.example.com"]
AppOpenLink ==
  /\ env.requests < MaxRequests
  /\ AppRequest(M_OpenLink, OpenLinkParams)
  /\ env' = [env EXCEPT !.requests = @ + 1]
  /\ UNCHANGED <<bridge, bridgeTransport, client, h2v, viewLog, ctxCallback>>

\* sendLog(params): this.notification({ method: "notifications/message", params });
\* without a transport the promise rejects, and a send that throws rejects it.
\* The entry is numbered by its place among the calls of the View application.
AppSendLog ==
  /\ env.requests < MaxSends
  /\ IF ~app.transport
       THEN UNCHANGED <<appTransport, v2h>>
       ELSE /\ appTransport' = TransportSend(appTransport)
            /\ v2h' = IF SendThrows(appTransport) THEN v2h
                      ELSE Append(v2h, Notification(M_LoggingMessage,
                                        [level |-> "info", data |-> env.requests]))
  /\ env' = [env EXCEPT !.requests = @ + 1]
  /\ UNCHANGED <<app, bridge, bridgeTransport, client, h2v, viewLog, ctxCallback, requests>>

\* sendMessage(params) or openLink(params) by a View application that counts
\* what it sends.
AppSendToHost ==
  /\ env.requests < MaxSends
  /\ \/ AppRequest(M_Message, MessageParams)
     \/ AppRequest(M_OpenLink, OpenLinkParams)
  /\ env' = [env EXCEPT !.requests = @ + 1]
  /\ UNCHANGED <<bridge, bridgeTransport, client, h2v, viewLog, ctxCallback>>

\* updateModelContext(params): this.request({ method: "ui/update-model-context",
\* params }, EmptyResultSchema); content and structuredContent are both optional.
UpdateParams ==
  {[content |-> "a", structuredContent |-> "s"],
   [content |-> "b", structuredContent |-> Absent],
   [content |-> Absent, structuredContent |-> "s"]}

\* The params of the request are the params of the call.
UpdateModelContextRequestContentOnly(params) ==
  [content |-> params.content, structuredContent |-> Absent]
UpdateModelContextRequest(params) == params

AppUpdateModelContext ==
  /\ env.requests < MaxUpdates
  /\ \E params \in UpdateParams :
       AppRequestWith(M_UpdateModelContext, params, UpdateModelContextRequest(params))
  /\ env' = [env EXCEPT !.requests = @ + 1]
  /\ UNCHANGED <<bridge, bridgeTransport, client, h2v, viewLog, ctxCallback>>

\* The timeout of a request of the View application: the response handler is
\* dropped, a cancelled notification is sent, and the promise rejects.
AppRequestTimeout ==
  /\ \E c \in requests :
       /\ c.state = "pending"
       /\ \E p \in app.pending : p.id = c.id
       /\ app' = [app EXCEPT !.pending = {p \in @ : p.id # c.id}]
       /\ requests' = (requests \ {c}) \cup
                        {[c EXCEPT !.state = "rejected", !.value = Failure("RequestTimeout")]}
       /\ appTransport' = TransportSend(appTransport)
       /\ v2h' = IF SendThrows(appTransport) THEN v2h
                 ELSE Append(v2h, Notification(M_Cancelled, [requestId |-> c.id]))
  /\ UNCHANGED <<bridge, bridgeTransport, client, h2v, viewLog, ctxCallback, env>>

\* this.notification(...) of a list-changed notification by the View application.
ListChangedOf(family) ==
  CASE family = "tools" -> M_ToolListChanged
    [] family = "resources" -> M_ResourceListChanged
    [] family = "prompts" -> M_PromptListChanged

AppSendListChanged ==
  /\ env.listChanged < MaxListChanged
  /\ app.transport
  /\ app.pc = "ready"
  /\ ~SendThrows(appTransport)
  /\ \E family \in Families :
       v2h' = Append(v2h, Notification(ListChangedOf(family), NoParams))
  /\ appTransport' = TransportSend(appTransport)
  /\ env' = [env EXCEPT !.listChanged = @ + 1]
  /\ UNCHANGED <<app, bridge, bridgeTransport, client, h2v, viewLog, ctxCallback, requests>>

----------------------------------------------------------------------------
(* Protocol (base class of App): dispatch of an inbound message *)

\* A reply sent by the View; a send that throws is only reported to onerror.
AppReply(a, m) ==
  /\ app' = a
  /\ appTransport' = TransportSend(appTransport)
  /\ v2h' = IF SendThrows(appTransport) THEN v2h ELSE Append(v2h, m)

\* The result schema a request was sent with: McpUiMessageResultSchema and
\* McpUiOpenLinkResultSchema keep isError only, CallToolResultSchema and the
\* list results keep the content as well.
ParseResult(method, result) ==
  IF method \in {M_Message, M_OpenLink}
    THEN [isError |-> result.isError, content |-> "", error |-> "none"]
  ELSE IF method = M_UpdateModelContext THEN NoValue
    ELSE result

\* The promise of this.request(): it rejects with the error of an error reply
\* and resolves with the parsed result of a result reply, whatever the result says.
SettleThrowsOnIsError(c, m) ==
  IF m.kind = "error"
    THEN [c EXCEPT !.state = "rejected", !.value = Failure(m.params.code)]
  ELSE IF m.params.isError
    THEN [c EXCEPT !.state = "rejected", !.value = Failure("HostRejected")]
  ELSE [c EXCEPT !.state = "resolved", !.value = ParseResult(c.method, m.params)]
Settle(c, m) ==
  IF m.kind = "error"
    THEN [c EXCEPT !.state = "rejected", !.value = Failure(m.params.code)]
    ELSE [c EXCEPT !.state = "resolved", !.value = ParseResult(c.method, m.params)]

\* _onresponse: the response handler of the request id, if there still is one.
AppOnResponse(m) ==
  IF \E p \in app.pending : p.id = m.id
    THEN LET p == CHOOSE q \in app.pending : q.id = m.id
             a == [app EXCEPT !.pending = @ \ {p}]
         IN  IF p.method = M_Initialize
               THEN AppOnInitializeSettled(a, m) /\ ctxCallback' = ctxCallback
               ELSE /\ app' = a
                    /\ requests' =
                         {IF c.id = m.id THEN Settle(c, m) ELSE c : c \in requests}
                    /\ UNCHANGED <<appTransport, v2h, viewLog, ctxCallback>>
    ELSE UNCHANGED <<app, appTransport, v2h, viewLog, ctxCallback, requests>>

\* _onnotification: the handler of the method, if any; otherwise the message is ignored.
AppOnNotification(m) ==
  IF m.method = M_HostContextChanged /\ m.method \in app.notificationHandlers
    THEN LET r == HostContextChangedHandler(app.hostContext, m.params)
         IN  /\ app' = [Invoke(app, m) EXCEPT !.hostContext = r.hostContext]
             /\ ctxCallback' = [count |-> ctxCallback.count + 1,
                                user |-> app.userCallback,
                                prev |-> app.hostContext,
                                arg |-> r.callback.arg,
                                saw |-> r.callback.saw]
             /\ UNCHANGED <<appTransport, v2h, viewLog, requests>>
  ELSE IF m.method \in NotificationKinds /\ m.method \in app.notificationHandlers
    THEN /\ app' = Invoke(app, m)
         /\ UNCHANGED <<appTransport, v2h, viewLog, ctxCallback, requests>>
    ELSE UNCHANGED <<app, appTransport, v2h, viewLog, ctxCallback, requests>>

\* How the teardown callback ends.
TeardownOutcome(callback) == IF callback.fails THEN "threw" ELSE "returned"

\* The reply Protocol sends once the teardown handler has settled: its result,
\* or an error reply carrying the exception (InternalError, as a thrown Error
\* has no code of its own).
TeardownReplySwallowed(m, outcome) == Result(m.id, m.method, NoValue)
TeardownReply(m, outcome) ==
  IF outcome = "returned"
    THEN Result(m.id, m.method, NoValue)
    ELSE ErrorReply(m.id, m.method, InternalError)

\* The promise an async teardown callback returned settles.
AppTeardownSettle ==
  /\ \E r \in app.teardownRuns :
       /\ r.state = "running"
       /\ LET outcome == TeardownOutcome(app.onteardown)
          IN  AppReply([app EXCEPT !.teardownRuns =
                          (@ \ {r}) \cup {[id |-> r.id, state |-> outcome]}],
                       TeardownReply([id |-> r.id, method |-> M_Teardown], outcome))
  /\ UNCHANGED <<bridge, bridgeTransport, client, h2v, viewLog, ctxCallback, requests, env>>

AppOnRequestUnanswered(m) ==
  /\ IF m.method \notin app.requestHandlers
       THEN UNCHANGED <<app, appTransport, v2h>>
       ELSE AppReply([Invoke(app, m) EXCEPT !.callbackCalls = @ + 1],
                     Result(m.id, m.method, NoValue))
  /\ UNCHANGED <<viewLog, ctxCallback, requests>>

\* _onrequest: without a handler the reply is a MethodNotFound error; with one,
\* the handler's result is the reply. oncalltool/onlisttools invoke the callback.
AppOnRequest(m) ==
  /\ IF m.method \notin app.requestHandlers
       THEN AppReply(app, ErrorReply(m.id, m.method, MethodNotFound))
     ELSE IF m.method = M_Teardown
       THEN IF app.onteardown.async
              THEN /\ app' = [Invoke(app, m) EXCEPT !.teardownRuns =
                                 @ \cup {[id |-> m.id, state |-> "running"]}]
                   /\ UNCHANGED <<appTransport, v2h>>
              ELSE LET outcome == TeardownOutcome(app.onteardown)
                   IN  AppReply([Invoke(app, m) EXCEPT !.teardownRuns =
                                   @ \cup {[id |-> m.id, state |-> outcome]}],
                                TeardownReply(m, outcome))
     ELSE IF m.method \in {M_ToolsCall, M_ToolsList}
       THEN AppReply([Invoke(app, m) EXCEPT !.callbackCalls = @ + 1],
                     Result(m.id, m.method, [isError |-> FALSE, content |-> "view", error |-> "none"]))
     ELSE AppReply(app, Result(m.id, m.method, NoValue))
  /\ UNCHANGED <<viewLog, ctxCallback, requests>>

\* The adapter delivers the next message; one that arrives while the adapter is
\* not listening (not started, or closed) is lost.
AppDispatch(m) ==
  IF m.kind \in {"result", "error"} THEN AppOnResponse(m)
  ELSE IF m.kind = "notification" THEN AppOnNotification(m)
  ELSE AppOnRequest(m)

AppReceive ==
  /\ h2v # <<>>
  /\ h2v' = Tail(h2v)
  /\ LET m == Head(h2v)
     IN  IF ~TransportDelivers(appTransport, AppEventSource, HostWindow)
           THEN UNCHANGED <<app, appTransport, v2h, viewLog, ctxCallback, requests>>
           ELSE AppDispatch(m)
  /\ UNCHANGED <<bridge, bridgeTransport, client, env>>

\* A message event from another window at the View's window: what such a
\* window posts is a forged initialize result, context change or teardown request.
ForeignToView ==
  {Result(0, M_Initialize,
          [wellFormed |-> TRUE, protocolVersion |-> LATEST_PROTOCOL_VERSION,
           hostCapabilities |-> NoCaps, hostInfo |-> [name |-> "Evil", version |-> "6.6.6"],
           hostContext |-> EmptyContext]),
   Notification(M_HostContextChanged, [EmptyContext EXCEPT !["theme"] = "dark"]),
   Request(7, M_Teardown, NoParams)}

AppWindowMessage ==
  /\ Len(env.foreign) < MaxForeign
  /\ \E m \in ForeignToView :
       /\ IF ~TransportDelivers(appTransport, AppEventSource, OtherWindow)
            THEN UNCHANGED <<app, appTransport, v2h, viewLog, ctxCallback, requests>>
            ELSE AppDispatch(m)
       /\ env' = [env EXCEPT !.foreign =
                     Append(@, [to |-> ViewWindow, m |-> m,
                                listening |-> appTransport.state = "started"])]
  /\ UNCHANGED <<bridge, bridgeTransport, client, h2v>>

----------------------------------------------------------------------------
(* Protocol (base class of App): close() *)

\* close(): await this._transport?.close(). The adapter's close() fires onclose,
\* and _onclose() drops the response handlers, forgets the transport and rejects
\* every pending request with ConnectionClosed; connect() catches the rejection
\* of its ui/initialize request.
AppClose ==
  /\ app.transport
  /\ app.pc \in {"connecting", "handshaking", "notifying", "ready"}
  /\ LET closed == AppOnClose(app)
     IN  IF app.pc = "handshaking"
           THEN /\ app' = [closed EXCEPT !.pc = "failed", !.initError = "ConnectionClosed",
                                         !.connectError = "ConnectionClosed"]
                /\ viewLog' = viewLog \o <<"transport.close", "connect.rejected">>
           ELSE /\ app' = [closed EXCEPT !.pc = IF @ = "ready" THEN "closed" ELSE @]
                /\ viewLog' = Append(viewLog, "transport.close")
  /\ appTransport' = TransportClose(appTransport)
  /\ requests' = RejectPending(requests, Failure("ConnectionClosed"))
  /\ UNCHANGED <<bridge, bridgeTransport, client, v2h, h2v, ctxCallback, env>>

----------------------------------------------------------------------------
(* The upstream MCP client *)

\* getServerCapabilities(): undefined before the client has connected; each
\* family is absent, present, or present with listChanged.
FamilyCaps == {"absent", "present", "listChanged"}
ServerCapabilities == [Families -> FamilyCaps]
\* The servers the forwarding runs start from: every family at the same level,
\* or the three levels spread over the three families in every order.
ForwardingServers ==
  {sc \in ServerCapabilities : Cardinality({sc[f] : f \in Families}) \in {1, 3}}
NoServerCapabilities == [f \in Families |-> "absent"]

NewClient(serverCapabilities) ==
  [serverCapabilities |-> serverCapabilities, requests |-> <<>>, responses |-> <<>>,
   notifications |-> <<>>, aborted |-> {}]

\* What the upstream server answers to a forwarded request: a result (isError
\* or not), or a failure of the request itself.
UpstreamResults == {[isError |-> e, content |-> "upstream", error |-> "none"] : e \in BOOLEAN}

----------------------------------------------------------------------------
(* class AppBridge *)

HostInfo == [name |-> "MyHost", version |-> "1.0.0"]
HostCapabilities == [openLinks |-> TRUE, serverTools |-> TRUE]
HostCapabilitySets == [openLinks : BOOLEAN, serverTools : BOOLEAN]

\* What the Host application's onmessage or onopenlink callback returns: {}, or
\* { isError: true } with more fields than the result schema has.
HostResults ==
  {[isError |-> FALSE, content |-> "", error |-> "none"],
   [isError |-> TRUE, content |-> "detail", error |-> "none"]}

\* constructor(_client, _hostInfo, _capabilities, options)
NewBridge ==
  [hostInfo |-> HostInfo,
   capabilities |-> HostCapabilities,
   appCapabilities |-> Undefined([tools |-> FALSE]),
   requestHandlers |-> {M_Initialize, M_Ping},
   notificationHandlers |-> {M_Initialized},
   initializedCalls |-> 0,
   sizeChanges |-> <<>>,
   handled |-> <<>>,
   logs |-> <<>>,
   modelContext |-> Undefined([content |-> Absent, structuredContent |-> Absent]),
   inflight |-> {},
   pending |-> {},
   nextId |-> 0,
   pc |-> "unconnected",
   connectError |-> "none"]

\* _oninitialize(request): the protocolVersion of the result.
NegotiateEcho(requestedVersion) == requestedVersion
Negotiate(requestedVersion) ==
  IF requestedVersion \in SUPPORTED_PROTOCOL_VERSIONS
    THEN requestedVersion
    ELSE LATEST_PROTOCOL_VERSION

\* _oninitialize(request): records the View's capabilities and builds the result.
OnInitializeFiresCallback(b, request) ==
  [bridge |-> [b EXCEPT !.appCapabilities = Some(request.params.appCapabilities),
                        !.initializedCalls = @ + 1],
   result |-> [wellFormed |-> TRUE,
               protocolVersion |-> Negotiate(request.params.protocolVersion),
               hostCapabilities |-> b.capabilities,
               hostInfo |-> b.hostInfo,
               hostContext |-> EmptyContext]]
OnInitialize(b, request) ==
  [bridge |-> [b EXCEPT !.appCapabilities = Some(request.params.appCapabilities)],
   result |-> [wellFormed |-> TRUE,
               protocolVersion |-> Negotiate(request.params.protocolVersion),
               hostCapabilities |-> b.capabilities,
               hostInfo |-> b.hostInfo,
               hostContext |-> EmptyContext]]

\* The onupdatemodelcontext callback of the Host application keeps the params
\* as the context snapshot for the next model turn, in place of the one it held.
StoreContext(snapshot, params) == Some(params)

\* connect(): the request methods forwardRequest() is called for.
ForwardedRequestsAll(sc) ==
  {M_ToolsCall, M_ResourcesList, M_ResourceTemplatesList, M_PromptsList}
ForwardedRequests(sc) ==
  (IF sc["tools"] # "absent" THEN {M_ToolsCall} ELSE {})
  \cup (IF sc["resources"] # "absent"
          THEN {M_ResourcesList, M_ResourceTemplatesList} ELSE {})
  \cup (IF sc["prompts"] # "absent" THEN {M_PromptsList} ELSE {})

\* connect(): the notification methods forwardNotification() is called for.
ForwardedNotifications(sc) ==
  {ListChangedOf(f) : f \in {g \in Families : sc[g] = "listChanged"}}

\* connect(transport)
BridgeConnectNoCheck ==
  /\ bridge.pc = "unconnected"
  /\ LET sc == client.serverCapabilities
     IN  /\ bridge' = [bridge EXCEPT
                         !.requestHandlers = @ \cup ForwardedRequests(sc.v),
                         !.notificationHandlers = @ \cup ForwardedNotifications(sc.v),
                         !.pc = "connected"]
         /\ bridgeTransport' = TransportStart(bridgeTransport)
  /\ UNCHANGED <<app, appTransport, client, v2h, h2v, viewLog, ctxCallback, requests, env>>
BridgeConnectStartsFirst ==
  /\ bridge.pc \in {"unconnected", "starting"}
  /\ LET sc == client.serverCapabilities
     IN  IF ~sc.def
           THEN /\ bridge' = [bridge EXCEPT !.pc = "failed",
                                !.connectError = "Client server capabilities not available"]
                /\ bridgeTransport' = bridgeTransport
         ELSE IF bridge.pc = "unconnected"
           THEN /\ bridge' = [bridge EXCEPT !.pc = "starting"]
                /\ bridgeTransport' = TransportStart(bridgeTransport)
         ELSE /\ bridge' = [bridge EXCEPT
                              !.requestHandlers = @ \cup ForwardedRequests(sc.v),
                              !.notificationHandlers = @ \cup ForwardedNotifications(sc.v),
                              !.pc = "connected"]
              /\ bridgeTransport' = bridgeTransport
  /\ UNCHANGED <<app, appTransport, client, v2h, h2v, viewLog, ctxCallback, requests, env>>
BridgeConnect ==
  /\ bridge.pc = "unconnected"
  /\ LET sc == client.serverCapabilities
     IN  IF ~sc.def
           THEN /\ bridge' = [bridge EXCEPT !.pc = "failed",
                                !.connectError = "Client server capabilities not available"]
                /\ bridgeTransport' = bridgeTransport
           ELSE /\ bridge' = [bridge EXCEPT
                                !.requestHandlers = @ \cup ForwardedRequests(sc.v),
                                !.notificationHandlers = @ \cup ForwardedNotifications(sc.v),
                                !.pc = "connected"]
                /\ bridgeTransport' = TransportStart(bridgeTransport)
  /\ UNCHANGED <<app, appTransport, client, v2h, h2v, viewLog, ctxCallback, requests, env>>

\* The handler forwardRequest() installs: this._client.request(request, ...)
ForwardRequestNoArguments(request) ==
  [method |-> request.method,
   params |-> IF request.method = M_ToolsCall
                THEN [name |-> request.params.name, arguments |-> Absent]
                ELSE request.params]
ForwardRequest(request) ==
  [method |-> request.method, params |-> request.params]

\* The options of that upstream request: { signal: extra.signal }, the signal of
\* the AbortController the endpoint keeps for the View's request.
ForwardOptionsNoSignal(request) == [signal |-> Undefined(0)]
ForwardOptions(request) == [signal |-> Some(request.id)]

\* _onrequest on the Host endpoint.
BridgeOnRequestRepliesOnly(m) ==
  IF m.method = M_Initialize
    THEN LET r == OnInitialize(bridge, m)
         IN  /\ bridge' = r.bridge
             /\ h2v' = Append(h2v, Result(m.id, m.method, r.result))
             /\ client' = client
  ELSE /\ h2v' = Append(h2v, Result(m.id, m.method, NoValue))
       /\ UNCHANGED <<bridge, client>>
BridgeOnRequest(m) ==
  IF m.method \notin bridge.requestHandlers
    THEN /\ h2v' = Append(h2v, ErrorReply(m.id, m.method, MethodNotFound))
         /\ UNCHANGED <<bridge, client>>
  ELSE IF m.method = M_Initialize
    THEN LET r == OnInitialize(bridge, m)
         IN  /\ bridge' = r.bridge
             /\ h2v' = Append(h2v, Result(m.id, m.method, r.result))
             /\ client' = client
  ELSE IF m.method = M_Ping
    THEN /\ h2v' = Append(h2v, Result(m.id, m.method, NoValue))
         /\ UNCHANGED <<bridge, client>>
  ELSE IF m.method \in {M_Message, M_OpenLink}
    THEN /\ \/ \E result \in HostResults :
                 /\ h2v' = Append(h2v, Result(m.id, m.method, result))
                 /\ bridge' = [bridge EXCEPT !.handled =
                                 Append(@, [from |-> m.id, value |-> result])]
            \/ /\ h2v' = Append(h2v, ErrorReply(m.id, m.method, InternalError))
               /\ bridge' = [bridge EXCEPT !.handled =
                               Append(@, [from |-> m.id, value |-> Failure(InternalError)])]
         /\ client' = client
  ELSE IF m.method = M_UpdateModelContext
    THEN /\ \/ /\ h2v' = Append(h2v, Result(m.id, m.method, NoValue))
               /\ bridge' = [bridge EXCEPT !.modelContext = StoreContext(@, m.params)]
            \/ /\ h2v' = Append(h2v, ErrorReply(m.id, m.method, InternalError))
               /\ bridge' = bridge
         /\ client' = client
  ELSE /\ client' = [client EXCEPT !.requests = Append(@, [from |-> m.id,
                                                            request |-> ForwardRequest(m)])]
       /\ bridge' = [bridge EXCEPT !.inflight =
                       @ \cup {[id |-> m.id, method |-> m.method,
                                signal |-> ForwardOptions(m).signal, aborted |-> FALSE]}]
       /\ h2v' = h2v

\* _onnotification on the Host endpoint. notifications/cancelled aborts the
\* AbortController of the request it names: an upstream request that was given
\* its signal is aborted and its handler sends no reply; an upstream request
\* without the signal goes on, and the reply of its aborted handler is dropped.
BridgeOnNotification(m) ==
  IF m.method = M_Cancelled
    THEN LET stopped == {r \in bridge.inflight : r.signal = Some(m.params.requestId)}
         IN  /\ bridge' = [bridge EXCEPT !.inflight =
                             {IF r.id = m.params.requestId
                                THEN [r EXCEPT !.aborted = TRUE] ELSE r :
                              r \in @ \ stopped}]
             /\ client' = [client EXCEPT !.aborted = @ \cup {r.id : r \in stopped}]
             /\ h2v' = h2v
  ELSE IF m.method \notin bridge.notificationHandlers
    THEN UNCHANGED <<bridge, client, h2v>>
  ELSE IF m.method = M_Initialized
    THEN /\ bridge' = [bridge EXCEPT !.initializedCalls = @ + 1]
         /\ UNCHANGED <<client, h2v>>
  ELSE IF m.method = M_SizeChange
    THEN /\ bridge' = [bridge EXCEPT !.sizeChanges = Append(@, m.params)]
         /\ UNCHANGED <<client, h2v>>
  ELSE IF m.method = M_LoggingMessage
    THEN /\ bridge' = [bridge EXCEPT !.logs = Append(@, m.params)]
         /\ UNCHANGED <<client, h2v>>
  ELSE /\ client' = [client EXCEPT !.notifications = Append(@, m.method)]
       /\ UNCHANGED <<bridge, h2v>>

\* _onresponse on the Host endpoint: the reply to a request the Host sent.
BridgeOnResponse(m) ==
  /\ bridge' = [bridge EXCEPT !.pending = {p \in @ : p.id # m.id}]
  /\ UNCHANGED <<client, h2v>>

\* The dispatch of a message; e is what the applications did so far.
BridgeDispatch(m, e) ==
  IF m.kind = "request" THEN BridgeOnRequest(m) /\ env' = e
  ELSE IF m.kind = "notification" THEN BridgeOnNotification(m) /\ env' = e
  ELSE /\ BridgeOnResponse(m)
       /\ env' = [e EXCEPT !.replies = Append(@, m)]

BridgeReceive ==
  /\ env.peer = "AppBridge"
  /\ v2h # <<>>
  /\ v2h' = Tail(v2h)
  /\ LET m == Head(v2h)
     IN  IF ~TransportDelivers(bridgeTransport, BridgeEventSource, ViewWindow)
           THEN UNCHANGED <<bridge, client, h2v, env>>
           ELSE BridgeDispatch(m, env)
  /\ UNCHANGED <<app, appTransport, bridgeTransport, viewLog, ctxCallback, requests>>

\* A message event from another window at the Host's window: a forged
\* initialize request or initialized notification.
ForeignToHost ==
  {Request(9, M_Initialize,
           [appCapabilities |-> [tools |-> TRUE], protocolVersion |-> "2099-01-01"]),
   Notification(M_Initialized, NoParams)}

HostWindowMessage ==
  /\ env.peer = "AppBridge"
  /\ Len(env.foreign) < MaxForeign
  /\ \E m \in ForeignToHost :
       LET e == [env EXCEPT !.foreign =
                   Append(@, [to |-> HostWindow, m |-> m,
                              listening |-> bridgeTransport.state = "started"])]
       IN  IF ~TransportDelivers(bridgeTransport, BridgeEventSource, OtherWindow)
             THEN /\ env' = e
                  /\ UNCHANGED <<bridge, client, h2v>>
             ELSE BridgeDispatch(m, e)
  /\ UNCHANGED <<app, appTransport, bridgeTransport, v2h, viewLog, ctxCallback, requests>>

\* The upstream request of a forwarded request settles; the handler's promise
\* resolves with its result, or rejects, and Protocol sends the reply.
UpstreamRespond ==
  /\ \E r \in bridge.inflight :
       /\ bridge' = [bridge EXCEPT !.inflight = @ \ {r}]
       /\ \/ \E result \in UpstreamResults :
               /\ h2v' = IF r.aborted THEN h2v
                         ELSE Append(h2v, Result(r.id, r.method, result))
               /\ client' = [client EXCEPT !.responses =
                               Append(@, [from |-> r.id, value |-> result])]
          \/ /\ h2v' = IF r.aborted THEN h2v
                       ELSE Append(h2v, ErrorReply(r.id, r.method, InternalError))
             /\ client' = [client EXCEPT !.responses =
                             Append(@, [from |-> r.id, value |-> Failure(InternalError)])]
  /\ UNCHANGED <<app, appTransport, bridgeTransport, v2h, viewLog, ctxCallback,
                 requests, env>>

----------------------------------------------------------------------------
(* The application around the AppBridge *)

\* bridge.notification({ method: "ui/notifications/host-context-changed", params })
HostSendContextChanged ==
  /\ env.peer = "AppBridge"
  /\ bridge.pc = "connected"
  /\ env.ctxSent < MaxCtxNotifs
  /\ \E params \in Contexts :
       h2v' = Append(h2v, Notification(M_HostContextChanged, params))
  /\ env' = [env EXCEPT !.ctxSent = @ + 1]
  /\ UNCHANGED <<app, appTransport, bridge, bridgeTransport, client, v2h, viewLog,
                 ctxCallback, requests>>

\* bridge.request({ method: "tools/call" | "tools/list", ... })
HostSendToolRequest ==
  /\ env.peer = "AppBridge"
  /\ bridge.pc = "connected"
  /\ env.hostRequests < MaxHostRequests
  /\ \E method \in {M_ToolsCall, M_ToolsList} :
       /\ h2v' = Append(h2v, Request(bridge.nextId, method, NoParams))
       /\ bridge' = [bridge EXCEPT !.nextId = @ + 1,
                        !.pending = @ \cup {[id |-> bridge.nextId, method |-> method]}]
  /\ env' = [env EXCEPT !.hostRequests = @ + 1]
  /\ UNCHANGED <<app, appTransport, bridgeTransport, client, v2h, viewLog, ctxCallback,
                 requests>>

\* bridge.onmessage = ..., bridge.onopenlink = ..., before the Host application
\* connects the AppBridge: its callback becomes the request handler of the method.
HostSetRequestHandler ==
  /\ env.peer = "AppBridge"
  /\ bridge.pc = "unconnected"
  /\ \E method \in {M_Message, M_OpenLink} :
       /\ method \notin bridge.requestHandlers
       /\ bridge' = [bridge EXCEPT !.requestHandlers = @ \cup {method}]
  /\ UNCHANGED <<app, appTransport, bridgeTransport, client, v2h, h2v, viewLog,
                 ctxCallback, requests, env>>

\* bridge.onloggingmessage = ..., before the Host application connects the
\* AppBridge: its callback becomes the notification handler of the method.
HostSetOnLoggingMessage ==
  /\ env.peer = "AppBridge"
  /\ bridge.pc = "unconnected"
  /\ M_LoggingMessage \notin bridge.notificationHandlers
  /\ bridge' = [bridge EXCEPT !.notificationHandlers = @ \cup {M_LoggingMessage}]
  /\ UNCHANGED <<app, appTransport, bridgeTransport, client, v2h, h2v, viewLog,
                 ctxCallback, requests, env>>

\* bridge.onupdatemodelcontext = ..., before the Host application connects the
\* AppBridge.
HostSetOnUpdateModelContext ==
  /\ env.peer = "AppBridge"
  /\ bridge.pc = "unconnected"
  /\ M_UpdateModelContext \notin bridge.requestHandlers
  /\ bridge' = [bridge EXCEPT !.requestHandlers = @ \cup {M_UpdateModelContext}]
  /\ UNCHANGED <<app, appTransport, bridgeTransport, client, v2h, h2v, viewLog,
                 ctxCallback, requests, env>>

\* bridge.setNotificationHandler(McpUiSizeChangeNotificationSchema, handler), by
\* the Host application before it connects the AppBridge.
HostSetOnSizeChange ==
  /\ env.peer = "AppBridge"
  /\ bridge.pc = "unconnected"
  /\ M_SizeChange \notin bridge.notificationHandlers
  /\ bridge' = [bridge EXCEPT !.notificationHandlers = @ \cup {M_SizeChange}]
  /\ UNCHANGED <<app, appTransport, bridgeTransport, client, v2h, h2v, viewLog,
                 ctxCallback, requests, env>>

\* bridge.sendSizeChange({ width, height })
HostSendSizeChange ==
  /\ env.peer = "AppBridge"
  /\ bridge.pc = "connected"
  /\ env.hostRequests < MaxHostRequests
  /\ \E width \in {1, 2} :
       h2v' = Append(h2v, Notification(M_SizeChange, [width |-> width, height |-> 1]))
  /\ env' = [env EXCEPT !.hostRequests = @ + 1]
  /\ UNCHANGED <<app, appTransport, bridge, bridgeTransport, client, v2h, viewLog,
                 ctxCallback, requests>>

\* A notification about the tool call the View renders; its payload is numbered
\* by its place among the messages the Host application sent.
HostNotifyOvertaking(method) ==
  /\ env.peer = "AppBridge"
  /\ method \in env.kinds
  /\ bridge.pc = "connected"
  /\ env.hostRequests < MaxHostRequests
  /\ h2v' = <<Notification(method, [arguments |-> env.hostRequests + 1])>> \o h2v
  /\ env' = [env EXCEPT !.hostRequests = @ + 1]
  /\ UNCHANGED <<app, appTransport, bridge, bridgeTransport, client, v2h, viewLog,
                 ctxCallback, requests>>
HostNotify(method) ==
  /\ env.peer = "AppBridge"
  /\ method \in env.kinds
  /\ bridge.pc = "connected"
  /\ env.hostRequests < MaxHostRequests
  /\ h2v' = Append(h2v, Notification(method, [arguments |-> env.hostRequests + 1]))
  /\ env' = [env EXCEPT !.hostRequests = @ + 1]
  /\ UNCHANGED <<app, appTransport, bridge, bridgeTransport, client, v2h, viewLog,
                 ctxCallback, requests>>

\* bridge.sendToolInput(params), bridge.sendToolResult(params)
HostSendToolNotification == \E method \in {M_ToolInput, M_ToolResult} : HostNotify(method)

\* bridge.sendToolInputPartial(params)
HostSendToolInputPartial == HostNotify(M_ToolInputPartial)

\* bridge.sendToolCancelled(params)
HostSendToolCancelled == HostNotify(M_ToolCancelled)

\* bridge.sendResourceTeardown({}): this.request({ method: "ui/resource-teardown", params })
HostSendResourceTeardown ==
  /\ env.peer = "AppBridge"
  /\ bridge.pc = "connected"
  /\ env.hostRequests < MaxHostRequests
  /\ h2v' = Append(h2v, Request(bridge.nextId, M_Teardown, NoParams))
  /\ bridge' = [bridge EXCEPT !.nextId = @ + 1,
                   !.pending = @ \cup {[id |-> bridge.nextId, method |-> M_Teardown]}]
  /\ env' = [env EXCEPT !.hostRequests = @ + 1]
  /\ UNCHANGED <<app, appTransport, bridgeTransport, client, v2h, viewLog, ctxCallback,
                 requests>>

\* The Host application sends a message of a kind the run is about.
HostSendInbound ==
  \/ M_HostContextChanged \in env.kinds /\ HostSendContextChanged
  \/ M_Teardown \in env.kinds /\ HostSendResourceTeardown
  \/ env.kinds \cap {M_ToolsCall, M_ToolsList} # {} /\ HostSendToolRequest

\* A Host endpoint that is not an AppBridge answers ui/initialize with an error
\* reply or with a result that is not a McpUiInitializeResult; it ignores the rest.
ForeignHostReceive ==
  /\ env.peer # "AppBridge"
  /\ v2h # <<>>
  /\ v2h' = Tail(v2h)
  /\ LET m == Head(v2h)
     IN  IF m.kind = "request" /\ m.method = M_Initialize
           THEN h2v' = Append(h2v,
                  IF env.peer = "errorReply"
                    THEN ErrorReply(m.id, m.method, InternalError)
                    ELSE Result(m.id, m.method, [wellFormed |-> FALSE]))
           ELSE h2v' = h2v
  /\ UNCHANGED <<app, appTransport, bridge, bridgeTransport, client, viewLog, ctxCallback,
                 requests, env>>

----------------------------------------------------------------------------
(* Server helpers: registerAppTool *)

RESOURCE_URI_META_KEY == "ui/resourceUri"

\* config._meta: the ui object (McpUiToolMeta: resourceUri, visibility), the
\* flat legacy key, and any other key; a URI may be the empty string.
Uris == {"", "ui://a", "ui://b"}
NoUi == [resourceUri |-> Absent, visibility |-> Absent]
UiMetas == [resourceUri : Uris \cup {Absent}, visibility : {Absent, "app"}]
Metas ==
  [ui : {Undefined(NoUi)} \cup {Some(u) : u \in UiMetas},
   legacy : Uris \cup {Absent},
   other : {Absent, "x"}]

\* A value in a condition: undefined and the empty string are falsy.
Truthy(x) == x # Absent /\ x # ""

\* uiMeta?.resourceUri
UiResourceUri(meta) == IF meta.ui.def THEN meta.ui.v.resourceUri ELSE Absent

\* The _meta registerAppTool passes to server.registerTool.
NormalizeMeta(meta) ==
  LET uiUri == UiResourceUri(meta)
      legacyUri == meta.legacy
  IN  IF Truthy(uiUri) /\ ~Truthy(legacyUri)
        THEN [meta EXCEPT !.legacy = uiUri]
      ELSE IF Truthy(legacyUri) /\ ~Truthy(uiUri)
        THEN [meta EXCEPT !.ui = Some([meta.ui.v EXCEPT !.resourceUri = legacyUri])]
      ELSE meta

\* registerAppTool(server, name, config, cb): server.registerTool(name,
\* { ...config, _meta: normalizedMeta }, cb)
RegisterAppTool ==
  /\ env.registered = <<>>
  /\ env' = [env EXCEPT !.registered = <<NormalizeMeta(env.config)>>]
  /\ UNCHANGED <<app, appTransport, bridge, bridgeTransport, client, v2h, h2v, viewLog,
                 ctxCallback, requests>>

\* registerAppTool called with the _meta an earlier call registered.
RegisterAppToolAgain ==
  /\ env.registered # <<>>
  /\ Len(env.registered) < MaxRegistrations
  /\ env' = [env EXCEPT !.registered =
                Append(@, NormalizeMeta(env.registered[Len(env.registered)]))]
  /\ UNCHANGED <<app, appTransport, bridge, bridgeTransport, client, v2h, h2v, viewLog,
                 ctxCallback, requests>>

----------------------------------------------------------------------------
(* Specifications *)

NewEnv(peer) ==
  [peer |-> peer, ctxSent |-> 0, hostRequests |-> 0, listChanged |-> 0, requests |-> 0,
   observations |-> 0, kinds |-> {}, foreign |-> <<>>,
   triedHandler |-> [m \in {M_ToolsCall, M_ToolsList} |-> FALSE],
   replies |-> <<>>]

NoCallback ==
  [count |-> 0, user |-> FALSE, prev |-> Undefined(EmptyContext),
   arg |-> EmptyContext, saw |-> Undefined(EmptyContext)]

InitWith(versions, startFails, failAts, peers, tools, serverCaps) ==
  /\ app \in {NewApp(t, v) : t \in tools, v \in versions}
  /\ appTransport \in {NewTransport(s, f) : s \in startFails, f \in failAts}
  /\ bridge = NewBridge
  /\ bridgeTransport = NewTransport(FALSE, 0)
  /\ client \in {NewClient(sc) : sc \in serverCaps}
  /\ v2h = <<>>
  /\ h2v = <<>>
  /\ viewLog = <<>>
  /\ ctxCallback = NoCallback
  /\ requests = {}
  /\ env \in {NewEnv(p) : p \in peers}

\* The handshake: any View build, adapter fault and kind of Host; the upstream
\* server declares tools only, and the View declares no tools of its own.
Init ==
  InitWith(Versions, BOOLEAN, 0..2, {"AppBridge", "errorReply", "malformed"}, {FALSE},
           {Some([NoServerCapabilities EXCEPT !["tools"] = "present"])})

Next ==
  \/ AppConnect
  \/ AppSendInitialize
  \/ AppInitializeTimeout
  \/ AppConnectFinish
  \/ AppSetOnHostContextChanged
  \/ AppReceive
  \/ BridgeConnect
  \/ BridgeReceive
  \/ HostSendContextChanged
  \/ ForeignHostReceive

Spec == Init /\ [][Next]_vars

\* Forwarding: a View and an AppBridge of the same build over sound adapters,
\* with any server capabilities of the upstream client, undiscovered ones included.
InitForward ==
  InitWith({LATEST_PROTOCOL_VERSION}, {FALSE}, {0}, {"AppBridge"}, {FALSE},
           {Undefined(NoServerCapabilities)} \cup {Some(sc) : sc \in ForwardingServers})

NextForward ==
  \/ AppConnect
  \/ AppSendInitialize
  \/ AppConnectFinish
  \/ AppCallServerTool
  \/ AppRequestList
  \/ AppSendListChanged
  \/ AppReceive
  \/ BridgeConnect
  \/ BridgeReceive
  \/ UpstreamRespond

SpecForward == InitForward /\ [][NextForward]_vars

\* Forwarded tool calls that the View may cancel while they are in flight.
InitCancel ==
  InitWith({LATEST_PROTOCOL_VERSION}, {FALSE}, {0}, {"AppBridge"}, {FALSE},
           {Some([NoServerCapabilities EXCEPT !["tools"] = "present"])})

NextCancel ==
  \/ AppConnect
  \/ AppSendInitialize
  \/ AppConnectFinish
  \/ AppCallServerTool
  \/ AppRequestTimeout
  \/ AppReceive
  \/ BridgeConnect
  \/ BridgeReceive
  \/ UpstreamRespond

SpecCancel == InitCancel /\ [][NextCancel]_vars

\* Requests of the Host to the View: a View with or without the tools
\* capability, whose application registers its tool handlers or does not.
InitViewTools ==
  InitWith({LATEST_PROTOCOL_VERSION}, {FALSE}, {0}, {"AppBridge"}, BOOLEAN,
           {Some([NoServerCapabilities EXCEPT !["tools"] = "present"])})

NextViewTools ==
  \/ AppConnect
  \/ AppSendInitialize
  \/ AppConnectFinish
  \/ AppSetToolHandler
  \/ AppReceive
  \/ BridgeConnect
  \/ BridgeReceive
  \/ HostSendToolRequest

SpecViewTools == InitViewTools /\ [][NextViewTools]_vars

\* Teardown: the Host asks the View to prepare for unmounting; the View's
\* application has assigned onteardown, before or after the request, or has not.
InitTeardown ==
  InitWith({LATEST_PROTOCOL_VERSION}, {FALSE}, {0}, {"AppBridge"}, {FALSE},
           {Some([NoServerCapabilities EXCEPT !["tools"] = "present"])})

NextTeardown ==
  \/ AppConnect
  \/ AppSendInitialize
  \/ AppConnectFinish
  \/ AppSetOnTeardown
  \/ AppReceive
  \/ AppTeardownSettle
  \/ BridgeConnect
  \/ BridgeReceive
  \/ HostSendResourceTeardown

SpecTeardown == InitTeardown /\ [][NextTeardown]_vars

\* Teardown of a View whose application assigns no onteardown callback. Both
\* adapters deliver every message event the window queued.
NextNoTeardownCallback ==
  \/ AppConnect
  \/ AppSendInitialize
  \/ AppConnectFinish
  \/ AppReceive
  \/ BridgeConnect
  \/ BridgeReceive
  \/ HostSendResourceTeardown

SpecNoTeardownCallback ==
  /\ InitTeardown
  /\ [][NextNoTeardownCallback]_vars
  /\ WF_vars(AppReceive)
  /\ WF_vars(BridgeReceive)

\* Requests of the View to the Host: a Host that declares any of its
\* capabilities, over an upstream server with tools.
InitHostRequests ==
  /\ app = NewApp(FALSE, LATEST_PROTOCOL_VERSION)
  /\ appTransport = NewTransport(FALSE, 0)
  /\ bridge \in {[NewBridge EXCEPT !.capabilities = hc] : hc \in HostCapabilitySets}
  /\ bridgeTransport = NewTransport(FALSE, 0)
  /\ client = NewClient(Some([NoServerCapabilities EXCEPT !["tools"] = "present"]))
  /\ v2h = <<>>
  /\ h2v = <<>>
  /\ viewLog = <<>>
  /\ ctxCallback = NoCallback
  /\ requests = {}
  /\ env = NewEnv("AppBridge")

NextHostRequests ==
  \/ AppConnect
  \/ AppSendInitialize
  \/ AppConnectFinish
  \/ AppSendMessage
  \/ AppOpenLink
  \/ AppCallServerTool
  \/ AppRequestTimeout
  \/ AppReceive
  \/ BridgeConnect
  \/ BridgeReceive
  \/ UpstreamRespond
  \/ HostSetRequestHandler

SpecHostRequests == InitHostRequests /\ [][NextHostRequests]_vars

\* A View constructed with any options argument.
WithOptions(a, arg) ==
  [a EXCEPT !.optionsArg = arg, !.autoResize = ConstructorOptions(arg)]

\* Resizing: a View constructed with any options argument, whose document is
\* laid out again and again, and a Host that listens for size notifications.
InitResize ==
  /\ app \in {WithOptions(NewApp(FALSE, LATEST_PROTOCOL_VERSION), arg) : arg \in OptionArgs}
  /\ appTransport = NewTransport(FALSE, 0)
  /\ bridge = NewBridge
  /\ bridgeTransport = NewTransport(FALSE, 0)
  /\ client = NewClient(Some([NoServerCapabilities EXCEPT !["tools"] = "present"]))
  /\ v2h = <<>>
  /\ h2v = <<>>
  /\ viewLog = <<>>
  /\ ctxCallback = NoCallback
  /\ requests = {}
  /\ env = NewEnv("AppBridge")

NextResize ==
  \/ AppConnect
  \/ AppSendInitialize
  \/ AppConnectFinish
  \/ AppResizeObserved
  \/ AppAnimationFrame
  \/ AppReceive
  \/ BridgeConnect
  \/ BridgeReceive
  \/ HostSetOnSizeChange
  \/ HostSendSizeChange

SpecResize == InitResize /\ [][NextResize]_vars

\* Several resize subsystems in one document, each set up by a call of
\* setupSizeChangedNotifications(), measuring a document that is laid out again
\* and again.
InitSetups ==
  InitWith({LATEST_PROTOCOL_VERSION}, {FALSE}, {0}, {"AppBridge"}, {FALSE},
           {Some([NoServerCapabilities EXCEPT !["tools"] = "present"])})

NextSetups ==
  \/ AppSetupSizeChangedNotifications
  \/ AppSetupResizeObserved
  \/ AppSetupAnimationFrame

SpecSetups == InitSetups /\ [][NextSetups]_vars

\* The manual setup of a connecting View whose application also calls the
\* cleanup functions it was given.
NextCleanup ==
  \/ AppConnect
  \/ AppSetupSizeChangedNotifications
  \/ AppSetupResizeObserved
  \/ AppSetupAnimationFrame
  \/ AppSetupCleanup

SpecCleanup == InitSetups /\ [][NextCleanup]_vars

\* A server that registers an app tool with any _meta.
InitRegister ==
  /\ app = NewApp(FALSE, LATEST_PROTOCOL_VERSION)
  /\ appTransport = NewTransport(FALSE, 0)
  /\ bridge = NewBridge
  /\ bridgeTransport = NewTransport(FALSE, 0)
  /\ client = NewClient(Undefined(NoServerCapabilities))
  /\ v2h = <<>>
  /\ h2v = <<>>
  /\ viewLog = <<>>
  /\ ctxCallback = NoCallback
  /\ requests = {}
  /\ env \in {[config |-> meta, registered |-> <<>>] : meta \in Metas}

NextRegister ==
  \/ RegisterAppTool
  \/ RegisterAppToolAgain

SpecRegister == InitRegister /\ [][NextRegister]_vars

\* Delivery to the Host application: a View that sends messages, links and log
\* entries over a channel that stays up. The browser's event loop runs every
\* message event that was posted to the Host's window, so the dispatch of a
\* queued message is weakly fair.
InitDelivery ==
  InitWith({LATEST_PROTOCOL_VERSION}, {FALSE}, {0}, {"AppBridge"}, {FALSE},
           {Some([NoServerCapabilities EXCEPT !["tools"] = "present"])})

NextDelivery ==
  \/ AppConnect
  \/ AppSendInitialize
  \/ AppConnectFinish
  \/ AppSendToHost
  \/ AppSendLog
  \/ AppReceive
  \/ BridgeConnect
  \/ BridgeReceive
  \/ HostSetRequestHandler
  \/ HostSetOnLoggingMessage

SpecDelivery == InitDelivery /\ [][NextDelivery]_vars /\ WF_vars(BridgeReceive)

\* Further ui/initialize requests from the View's window during and after the
\* handshake.
InitAgain ==
  InitWith({LATEST_PROTOCOL_VERSION}, {FALSE}, {0}, {"AppBridge"}, BOOLEAN,
           {Some([NoServerCapabilities EXCEPT !["tools"] = "present"])})

NextAgain ==
  \/ AppConnect
  \/ AppSendInitialize
  \/ AppConnectFinish
  \/ AppConnectAgain
  \/ AppReceive
  \/ BridgeConnect
  \/ BridgeReceive

SpecAgain == InitAgain /\ [][NextAgain]_vars

\* Foreign windows: while the two endpoints shake hands, other windows post
\* messages to the View's and to the Host's window.
InitForeign ==
  InitWith({LATEST_PROTOCOL_VERSION}, {FALSE}, {0}, {"AppBridge"}, {FALSE},
           {Some([NoServerCapabilities EXCEPT !["tools"] = "present"])})

NextForeign ==
  \/ AppConnect
  \/ AppSendInitialize
  \/ AppConnectFinish
  \/ AppReceive
  \/ AppWindowMessage
  \/ BridgeConnect
  \/ BridgeReceive
  \/ HostWindowMessage

SpecForeign == InitForeign /\ [][NextForeign]_vars

\* The model context: a View whose application updates the model context again
\* and again, and a Host that keeps the snapshot or rejects the update.
InitModelContext ==
  InitWith({LATEST_PROTOCOL_VERSION}, {FALSE}, {0}, {"AppBridge"}, {FALSE},
           {Some([NoServerCapabilities EXCEPT !["tools"] = "present"])})

NextModelContext ==
  \/ AppConnect
  \/ AppSendInitialize
  \/ AppConnectFinish
  \/ AppUpdateModelContext
  \/ AppRequestTimeout
  \/ AppReceive
  \/ BridgeConnect
  \/ BridgeReceive
  \/ HostSetOnUpdateModelContext

SpecModelContext == InitModelContext /\ [][NextModelContext]_vars

\* Callbacks: a View, with or without the tools capability, whose application
\* assigns callbacks to a setter, once or again, while the Host sends messages of
\* that kind; or to the three setters of a streamed tool call.
StreamKinds == {M_ToolInputPartial, M_ToolInput, M_ToolResult}

InitHandlers ==
  /\ app \in {NewApp(t, LATEST_PROTOCOL_VERSION) : t \in BOOLEAN}
  /\ appTransport = NewTransport(FALSE, 0)
  /\ bridge = NewBridge
  /\ bridgeTransport = NewTransport(FALSE, 0)
  /\ client = NewClient(Some([NoServerCapabilities EXCEPT !["tools"] = "present"]))
  /\ v2h = <<>>
  /\ h2v = <<>>
  /\ viewLog = <<>>
  /\ ctxCallback = NoCallback
  /\ requests = {}
  /\ env \in {[NewEnv("AppBridge") EXCEPT !.kinds = ks] :
                ks \in {{k} : k \in Kinds} \cup {StreamKinds}}

NextHandlers ==
  \/ AppConnect
  \/ AppSendInitialize
  \/ AppConnectFinish
  \/ AppSetCallback
  \/ AppReceive
  \/ BridgeConnect
  \/ BridgeReceive
  \/ HostSendInbound
  \/ HostSendToolNotification
  \/ HostSendToolInputPartial
  \/ HostSendToolCancelled

SpecHandlers == InitHandlers /\ [][NextHandlers]_vars

\* The life of a connection: a View whose application calls the server's tool,
\* answers the Host's teardown request and closes the endpoint, over an adapter
\* that is sound or whose third or fourth send fails.
LifecycleFailAts == {0, 3, 4}

InitLifecycle ==
  InitWith({LATEST_PROTOCOL_VERSION}, {FALSE}, LifecycleFailAts, {"AppBridge"}, {FALSE},
           {Some([NoServerCapabilities EXCEPT !["tools"] = "present"])})

NextLifecycle ==
  \/ AppConnect
  \/ AppSendInitialize
  \/ AppConnectFinish
  \/ AppSetOnTeardown
  \/ AppCallServerTool
  \/ AppReceive
  \/ AppTeardownSettle
  \/ AppClose
  \/ BridgeConnect
  \/ BridgeReceive
  \/ UpstreamRespond
  \/ HostSendResourceTeardown

SpecLifecycle == InitLifecycle /\ [][NextLifecycle]_vars

----------------------------------------------------------------------------
(* Claims about the handshake and the host context *)

InitializeResults ==
  {h2v[i] : i \in {j \in 1..Len(h2v) :
                     /\ h2v[j].kind = "result"
                     /\ h2v[j].method = M_Initialize
                     /\ h2v[j].params.wellFormed}}

\* C1: the protocolVersion of the AppBridge's initialize result is the version
\* the View requested when that version is in SUPPORTED_PROTOCOL_VERSIONS, and
\* LATEST_PROTOCOL_VERSION otherwise.
C1_VersionNegotiation ==
  \A m \in InitializeResults :
    m.params.protocolVersion =
      IF app.protocolVersion \in SUPPORTED_PROTOCOL_VERSIONS
        THEN app.protocolVersion
        ELSE LATEST_PROTOCOL_VERSION

\* A View that asked for "2099-01-01" is answered with the Host's latest version.
C1_Witness ==
  /\ app.protocolVersion = "2099-01-01"
  /\ \E m \in InitializeResults : m.params.protocolVersion = LATEST_PROTOCOL_VERSION

\* The step in which the View's adapter delivers a host-context-changed notification.
ContextChangedDispatched ==
  /\ h2v # <<>>
  /\ Head(h2v).kind = "notification"
  /\ Head(h2v).method = M_HostContextChanged
  /\ appTransport.state = "started"
  /\ h2v' = Tail(h2v)

\* C2: after a host-context-changed notification with params P is dispatched,
\* getHostContext() is the previous context with exactly the fields present in P
\* overwritten, with or without a callback assigned by the application.
C2_ContextMerge ==
  [][ContextChangedDispatched =>
        /\ app'.hostContext.def
        /\ \A f \in CtxFields :
             app'.hostContext.v[f] =
               IF Head(h2v).params[f] # Absent THEN Head(h2v).params[f]
               ELSE app.hostContext.v[f]]_vars

\* With only the default callback, a notification overwrote one field of a
\* defined context and left another field, absent from the params, as it was.
C2_Witness ==
  /\ ctxCallback.count > 0
  /\ ~ctxCallback.user
  /\ ctxCallback.prev.def
  /\ \E f \in CtxFields :
       /\ ctxCallback.arg[f] = Absent
       /\ ctxCallback.prev.v[f] # Absent
       /\ getHostContext.v[f] = ctxCallback.prev.v[f]
  /\ \E g \in CtxFields :
       /\ ctxCallback.arg[g] # Absent
       /\ ctxCallback.prev.v[g] # Absent
       /\ ctxCallback.arg[g] # ctxCallback.prev.v[g]
       /\ getHostContext.v[g] = ctxCallback.arg[g]

\* C3: the merge happens before the callback is invoked: what the callback reads
\* through getHostContext() is the context with the notification's params merged in.
C3_MergeBeforeCallback ==
  ctxCallback.count > 0 =>
    /\ ctxCallback.saw.def
    /\ \A f \in CtxFields :
         ctxCallback.saw.v[f] =
           IF ctxCallback.arg[f] # Absent THEN ctxCallback.arg[f]
           ELSE ctxCallback.prev.v[f]

\* The application's own callback ran for a notification that changed a field.
C3_Witness ==
  /\ ctxCallback.count > 0
  /\ ctxCallback.user
  /\ \E f \in CtxFields :
       /\ ctxCallback.arg[f] # Absent
       /\ ctxCallback.arg[f] # ctxCallback.prev.v[f]
       /\ ctxCallback.saw.v[f] = ctxCallback.arg[f]

Count(log, e) == Cardinality({i \in 1..Len(log) : log[i] = e})
Before(log, e1, e2) ==
  \E i, j \in 1..Len(log) : i < j /\ log[i] = e1 /\ log[j] = e2

\* connect() rejected because its ui/initialize request failed.
HandshakeFailed == app.pc = "failed" /\ app.initError # "none"

\* C4: when the initialize request fails, connect() rejects with the request's
\* error, and the adapter's close() was invoked exactly once, before the
\* rejection; the endpoint holds no adapter any more.
C4_HandshakeFailureCloses ==
  HandshakeFailed =>
    /\ app.connectError = app.initError
    /\ appTransport.closeCalls = 1
    /\ Count(viewLog, "transport.close") = 1
    /\ Count(viewLog, "connect.rejected") = 1
    /\ Before(viewLog, "transport.close", "connect.rejected")
    /\ appTransport.state = "closed"
    /\ ~app.transport

\* The adapter's send threw on the ui/initialize request.
C4_Witness ==
  /\ HandshakeFailed
  /\ app.initError = "SendError"
  /\ appTransport.closeCalls = 1

\* connect() rejected because the adapter's start() failed.
StartFailed == app.pc = "failed" /\ app.connectError = "StartError"

\* C5: when starting the adapter fails, connect() rejects with the start error
\* and the adapter was torn down: its close() was invoked and the endpoint holds
\* no adapter any more.
C5_StartFailureCloses ==
  StartFailed =>
    /\ appTransport.closeCalls >= 1
    /\ ~app.transport

\* C6: until connect() has completed, getHostCapabilities(), getHostVersion()
\* and getHostContext() all return undefined.
C6_GettersUndefinedUntilConnected ==
  app.pc \in {"unconnected", "connecting", "handshaking", "notifying"} =>
    /\ ~getHostCapabilities.def
    /\ ~getHostVersion.def
    /\ ~getHostContext.def


----------------------------------------------------------------------------
(* Claims about the Host's connect() and its forwarding *)

ConstructorRequestHandlers == {M_Initialize, M_Ping}
ConstructorNotificationHandlers == {M_Initialized}

\* C7: when the upstream client has no server capabilities, AppBridge.connect()
\* rejects with an explicit error, installs no forwarding handler and does not
\* start the adapter.
C7_ConnectNeedsServerCapabilities ==
  (~client.serverCapabilities.def /\ bridge.pc # "unconnected") =>
    /\ bridge.pc = "failed"
    /\ bridge.connectError = "Client server capabilities not available"
    /\ bridge.requestHandlers = ConstructorRequestHandlers
    /\ bridge.notificationHandlers = ConstructorNotificationHandlers
    /\ bridgeTransport.startCalls = 0
    /\ bridgeTransport.state = "new"

C7_Witness ==
  /\ ~client.serverCapabilities.def
  /\ bridge.pc = "failed"

FamilyOf(method) ==
  CASE method \in {M_ToolsCall, M_ToolListChanged} -> "tools"
    [] method \in {M_ResourcesList, M_ResourceTemplatesList, M_ResourceListChanged} -> "resources"
    [] method \in {M_PromptsList, M_PromptListChanged} -> "prompts"

ForwardableRequests == {M_ToolsCall, M_ResourcesList, M_ResourceTemplatesList, M_PromptsList}
ListChangedMethods == {M_ToolListChanged, M_ResourceListChanged, M_PromptListChanged}

Declared(family) == client.serverCapabilities.v[family] # "absent"
DeclaredListChanged(family) == client.serverCapabilities.v[family] = "listChanged"

\* The step in which the Host's adapter delivers message m to the AppBridge.
BridgeDispatches(kind, methods) ==
  /\ v2h # <<>>
  /\ Head(v2h).kind = kind
  /\ Head(v2h).method \in methods
  /\ bridgeTransport.state = "started"
  /\ v2h' = Tail(v2h)

\* C8, in every state: a connected AppBridge has the forwarding handler of a
\* method exactly when the upstream declares the method's family; nothing of an
\* undeclared family was relayed upstream, and no View request of an undeclared
\* family resolved; a list-changed notification was forwarded only for a family
\* that declares listChanged.
C8_ForwardingState ==
  /\ \A m \in ForwardableRequests :
       m \in bridge.requestHandlers <=> (bridge.pc = "connected" /\ Declared(FamilyOf(m)))
  /\ \A m \in ListChangedMethods :
       m \in bridge.notificationHandlers <=>
         (bridge.pc = "connected" /\ DeclaredListChanged(FamilyOf(m)))
  /\ \A i \in 1..Len(client.requests) : Declared(FamilyOf(client.requests[i].request.method))
  /\ \A r \in bridge.inflight : Declared(FamilyOf(r.method))
  /\ \A c \in requests :
       ~Declared(FamilyOf(c.method)) =>
         /\ c.state # "resolved"
         /\ c.state = "rejected" =>
              c.value.error \in {MethodNotFound, "NotConnected", "SendError", "ConnectionClosed"}
  /\ \A i \in 1..Len(client.notifications) :
       DeclaredListChanged(FamilyOf(client.notifications[i]))

\* C8, in every step: a View request of an undeclared family that reaches the
\* AppBridge is answered at once with an error and not relayed; a list-changed
\* notification that reaches it is forwarded iff its family declares listChanged.
C8_ForwardingStep ==
  /\ (BridgeDispatches("request", ForwardableRequests)
        /\ ~Declared(FamilyOf(Head(v2h).method))) =>
       /\ h2v' = Append(h2v, ErrorReply(Head(v2h).id, Head(v2h).method, MethodNotFound))
       /\ client' = client
  /\ (BridgeDispatches("request", ForwardableRequests)
        /\ Declared(FamilyOf(Head(v2h).method))) =>
       /\ Len(client'.requests) = Len(client.requests) + 1
       /\ h2v' = h2v
  /\ BridgeDispatches("notification", ListChangedMethods) =>
       IF DeclaredListChanged(FamilyOf(Head(v2h).method))
         THEN client'.notifications = Append(client.notifications, Head(v2h).method)
         ELSE client' = client

\* C8: forwarding handlers exist per capability family exactly when the upstream
\* server declares the family.
C8_ForwardingPerFamily == []C8_ForwardingState /\ [][C8_ForwardingStep]_vars

\* A View request of an undeclared family was rejected with the Host's error,
\* while the upstream declares another family whose handler is installed.
C8_Witness ==
  /\ bridge.pc = "connected"
  /\ \E c \in requests :
       /\ ~Declared(FamilyOf(c.method))
       /\ c.state = "rejected"
       /\ c.value.error = MethodNotFound
  /\ \E f \in Families : Declared(f) /\ ~DeclaredListChanged(f)
  /\ \E g \in Families : DeclaredListChanged(g) /\ ListChangedOf(g) \in
                           {client.notifications[i] : i \in 1..Len(client.notifications)}

UpstreamRequestsFor(id) ==
  {i \in 1..Len(client.requests) : client.requests[i].from = id}
UpstreamResponsesFor(id) ==
  {i \in 1..Len(client.responses) : client.responses[i].from = id}

\* C9: for every callServerTool(params), the upstream client receives at most
\* one tools/call request for it, carrying exactly params; the promise resolves
\* only with the very result the upstream returned, isError included, and it
\* rejects only with a transport or Host level failure.
C9_ToolCallTransparency ==
  \A c \in requests :
    c.method = M_ToolsCall =>
      /\ Cardinality(UpstreamRequestsFor(c.id)) <= 1
      /\ \A i \in UpstreamRequestsFor(c.id) :
           /\ client.requests[i].request.method = M_ToolsCall
           /\ client.requests[i].request.params = c.params
      /\ c.state = "resolved" =>
           /\ Cardinality(UpstreamRequestsFor(c.id)) = 1
           /\ Cardinality(UpstreamResponsesFor(c.id)) = 1
           /\ \A i \in UpstreamResponsesFor(c.id) : client.responses[i].value = c.value
           /\ c.value.error = "none"
      /\ c.state = "rejected" =>
           /\ c.value.error \in {MethodNotFound, InternalError, "NotConnected",
                                 "SendError", "ConnectionClosed"}
           /\ \A i \in UpstreamResponsesFor(c.id) : client.responses[i].value.error # "none"

\* A tool call resolved with an upstream result that has isError: true.
C9_Witness ==
  \E c \in requests :
    /\ c.method = M_ToolsCall
    /\ c.state = "resolved"
    /\ c.value.isError
    /\ Cardinality(UpstreamRequestsFor(c.id)) = 1

\* Replies of the View to tools/call and tools/list requests of the Host, in
\* flight or received.
ViewToolReplies ==
  {v2h[i] : i \in {j \in 1..Len(v2h) :
                     /\ v2h[j].kind \in {"result", "error"}
                     /\ v2h[j].method \in {M_ToolsCall, M_ToolsList}}}
  \cup {env.replies[i] : i \in {j \in 1..Len(env.replies) :
                                  env.replies[j].method \in {M_ToolsCall, M_ToolsList}}}

\* The step in which the View's adapter delivers a tools/call or tools/list request.
ToolRequestDispatched ==
  /\ h2v # <<>>
  /\ Head(h2v).kind = "request"
  /\ Head(h2v).method \in {M_ToolsCall, M_ToolsList}
  /\ appTransport.state = "started"
  /\ h2v' = Tail(h2v)

C10_NoCallback ==
  ~app.capabilities.tools =>
    /\ app.callbackCalls = 0
    /\ \A r \in ViewToolReplies : r.kind = "error" /\ r.params.code = MethodNotFound

C10_ErrorReply ==
  (ToolRequestDispatched /\ ~app.capabilities.tools) =>
    v2h' = Append(v2h, ErrorReply(Head(h2v).id, Head(h2v).method, MethodNotFound))

\* C10: a View constructed without the tools capability never invokes an
\* application callback for an inbound tools/call or tools/list request; every
\* such request that reaches it is answered at once with an error reply.
C10_ToolsGating == []C10_NoCallback /\ [][C10_ErrorReply]_vars

\* The application tried to register oncalltool on a View without the tools
\* capability, and the Host received the error reply to its tools/call request.
C10_Witness ==
  /\ ~app.capabilities.tools
  /\ env.triedHandler[M_ToolsCall]
  /\ \E i \in 1..Len(env.replies) :
       /\ env.replies[i].method = M_ToolsCall
       /\ env.replies[i].kind = "error"

----------------------------------------------------------------------------
(* Claims about handler registration on the View *)

\* C11: assigning oncalltool or onlisttools always succeeds, whatever
\* capabilities the View declared: once the application has assigned the
\* setter, the handler of the method is registered.
C11_RegistrationAlwaysSucceeds ==
  \A method \in {M_ToolsCall, M_ToolsList} :
    env.triedHandler[method] => method \in app.requestHandlers

----------------------------------------------------------------------------
(* Claims about the teardown request *)

\* The replies to teardown requests: on their way to the Host, or received by it.
TeardownRepliesInFlight ==
  {v2h[i] : i \in {j \in 1..Len(v2h) :
                     v2h[j].kind \in {"result", "error"} /\ v2h[j].method = M_Teardown}}
TeardownRepliesReceived ==
  {env.replies[i] : i \in {j \in 1..Len(env.replies) : env.replies[j].method = M_Teardown}}
TeardownReplies == TeardownRepliesInFlight \cup TeardownRepliesReceived

\* The Host's await on sendResourceTeardown() of request id.
TeardownAwait(id) ==
  IF \E p \in bridge.pending : p.id = id THEN "pending"
  ELSE IF \E r \in TeardownRepliesReceived : r.id = id /\ r.kind = "result" THEN "resolved"
  ELSE "rejected"

C12_TeardownState ==
  /\ \A r \in TeardownReplies :
       /\ r.kind = "result" => [id |-> r.id, state |-> "returned"] \in app.teardownRuns
       /\ (r.kind = "error" /\ r.params.code = InternalError) =>
            [id |-> r.id, state |-> "threw"] \in app.teardownRuns
  /\ \A run \in app.teardownRuns :
       /\ run.state = "running" =>
            /\ TeardownAwait(run.id) = "pending"
            /\ ~\E r \in TeardownReplies : r.id = run.id
       /\ run.state = "returned" =>
            /\ TeardownAwait(run.id) \in {"pending", "resolved"}
            /\ \E r \in TeardownReplies : r.id = run.id /\ r.kind = "result"
       /\ run.state = "threw" =>
            /\ TeardownAwait(run.id) \in {"pending", "rejected"}
            /\ \E r \in TeardownReplies : r.id = run.id /\ r.kind = "error"
            /\ ~\E r \in TeardownReplies : r.id = run.id /\ r.kind = "result"

\* The step in which the View's adapter delivers a teardown request.
TeardownDispatched ==
  /\ h2v # <<>>
  /\ Head(h2v).kind = "request"
  /\ Head(h2v).method = M_Teardown
  /\ appTransport.state = "started"
  /\ h2v' = Tail(h2v)

C12_TeardownStep ==
  (TeardownDispatched /\ app.onteardown.set /\ app.onteardown.async) => v2h' = v2h

\* C12: the Host's teardown request resolves only after the View's teardown
\* callback has completed, for a sync and for an async callback (no reply leaves
\* the View while the callback's promise is unsettled); when the callback throws
\* or its promise rejects, the request is answered with an error reply, so the
\* Host's await rejects and is not left pending.
C12_TeardownHandshake == []C12_TeardownState /\ [][C12_TeardownStep]_vars

\* An async teardown callback rejected and the Host's await rejected with it.
C12_Witness ==
  /\ app.onteardown.set
  /\ app.onteardown.async
  /\ \E run \in app.teardownRuns :
       /\ run.state = "threw"
       /\ TeardownAwait(run.id) = "rejected"
       /\ \E r \in TeardownRepliesReceived :
            r.id = run.id /\ r.kind = "error" /\ r.params.code = InternalError

----------------------------------------------------------------------------
(* Claims about the resize subsystem *)

\* The step in which an animation frame callback measures the document.
Measured == app'.resize.measurements = app.resize.measurements + 1

\* The step in which the ResizeObserver reports a change.
Observed == env'.observations = env.observations + 1

C13_Step ==
  Measured =>
    /\ app'.resize.sent \in {app.resize.sent, app.resize.sent + 1}
    /\ app'.resize.sent = app.resize.sent + 1 =>
         /\ app.resize.lastSent.def => app'.resize.measured # app.resize.lastSent.v
         /\ app'.resize.lastSent = Some(app'.resize.measured)
    /\ (app.resize.measurements > 0 /\ app'.resize.measured = app.resize.measured) =>
         /\ app'.resize.sent = app.resize.sent
         /\ v2h' = v2h

\* Size notifications next to each other on the channel carry different sizes.
C13_Channel ==
  \A i \in 1..(Len(v2h) - 1) :
    (v2h[i].method = M_SizeChanged /\ v2h[i + 1].method = M_SizeChanged) =>
      v2h[i].params # v2h[i + 1].params

\* C13: a measurement leads to a size-changed notification only when its rounded
\* {width, height} differs from the last size sent, and of two consecutive
\* measurements with the same rounded size the second one sends nothing.
C13_ResizeDeduplication == []C13_Channel /\ [][C13_Step]_vars

\* Two measurements, the second with the size already sent: one notification.
C13_Witness ==
  /\ app.resize.measurements = 2
  /\ app.resize.sent = 1
  /\ app.resize.lastSent = Some(app.resize.measured)

C14_State ==
  /\ app.resize.frames \in {0, 1}
  /\ app.resize.scheduled <=> app.resize.frames = 1

C14_Step ==
  /\ Observed =>
       /\ app'.resize.scheduled
       /\ app'.resize.frames = 1
       /\ app'.resize.measurements = app.resize.measurements
  /\ Measured =>
       /\ app.resize.frames = 1
       /\ app'.resize.frames = 0
       /\ ~app'.resize.scheduled

\* C14: at most one animation frame callback is pending at any time; a
\* ResizeObserver callback leaves exactly one pending, whether or not one was
\* pending before, and each animation frame callback measures once and leaves
\* none pending, so that the next observation schedules a new one.
C14_ResizeCoalescing == []C14_State /\ [][C14_Step]_vars

\* Two observations between two frames were coalesced, and an observation after
\* a measurement scheduled a new frame.
C14_Witness ==
  /\ env.observations = 2
  /\ app.resize.measurements = 1
  /\ app.resize.frames = 1

\* C17: the View's size notification, the Host's size notification and the
\* schema the receiver dispatches on use one wire name, so a size notification
\* of the View that reaches a Host listening for size notifications is handed
\* to the Host's size handler.
C17_SizeWireName ==
  [][(BridgeDispatches("notification", {M_SizeChanged, M_SizeChange})
        /\ M_SizeChange \in bridge.notificationHandlers) =>
       bridge'.sizeChanges = Append(bridge.sizeChanges, Head(v2h).params)]_vars

\* C19: after a successful connect() the resize subsystem has been started,
\* unless the application set autoResize to false; in particular when no options
\* were passed and when the options passed do not mention autoResize.
C19_AutoResizeDefault ==
  (app.pc = "ready" /\ app.optionsArg # "autoResizeFalse") => app.resize.started

----------------------------------------------------------------------------
(* Claims about the requests of the View to the Host *)

\* What the Host application's callback did with the View's request id.
HandledFor(id) == {i \in 1..Len(bridge.handled) : bridge.handled[i].from = id}

\* C15: a sendMessage() or openLink() promise resolves exactly with the isError
\* flag the Host's callback returned, { isError: true } included; it rejects only
\* with a failure of the protocol or the transport (no handler, a callback that
\* threw, no connection, a send that failed, a timeout), and once the callback
\* has returned a result only with a timeout.
C15_BusinessRejectionIsValue ==
  \A c \in requests :
    c.method \in {M_Message, M_OpenLink} =>
      /\ Cardinality(HandledFor(c.id)) <= 1
      /\ c.state = "resolved" =>
           /\ c.value.error = "none"
           /\ \E i \in HandledFor(c.id) :
                /\ bridge.handled[i].value.error = "none"
                /\ bridge.handled[i].value.isError = c.value.isError
      /\ c.state = "rejected" =>
           /\ c.value.error \in {MethodNotFound, InternalError, "NotConnected", "SendError",
                                 "ConnectionClosed", "RequestTimeout"}
           /\ \A i \in HandledFor(c.id) :
                bridge.handled[i].value.error = "none" => c.value.error = "RequestTimeout"

\* The Host declined to open a link, and openLink() resolved with isError: true.
C15_Witness ==
  \E c \in requests :
    /\ c.method = M_OpenLink
    /\ c.state = "resolved"
    /\ c.value.isError
    /\ \E i \in HandledFor(c.id) : bridge.handled[i].value.isError

\* The capability of the Host a request method of the View depends on.
HostCapabilityFor(method) ==
  CASE method = M_OpenLink -> "openLinks"
    [] method = M_ToolsCall -> "serverTools"

\* C18: a View request for a method whose capability the Host did not declare
\* is not processed: when it reaches the Host it is answered at once with an
\* error reply, it is not handed to the Host application's callback and it is
\* not relayed upstream.
C18_HostCapabilityGating ==
  [][(/\ BridgeDispatches("request", {M_OpenLink, M_ToolsCall})
      /\ ~bridge.capabilities[HostCapabilityFor(Head(v2h).method)]) =>
       /\ Len(h2v') = Len(h2v) + 1
       /\ h2v'[Len(h2v')].kind = "error"
       /\ h2v'[Len(h2v')].id = Head(v2h).id
       /\ bridge'.handled = bridge.handled
       /\ client' = client]_vars

----------------------------------------------------------------------------
(* Claims about the end of the handshake *)

\* The step in which connect() receives a well-formed initialize result and goes on.
InitializeResultAccepted ==
  /\ h2v # <<>>
  /\ Head(h2v).kind = "result"
  /\ Head(h2v).method = M_Initialize
  /\ appTransport.state = "started"
  /\ h2v' = Tail(h2v)
  /\ app.pc = "handshaking"
  /\ app'.pc = "notifying"

\* C16: once connect() has accepted the Host's initialize result, the protocol
\* version the View holds is the version of that result, not the one it asked for.
C16_AdoptsReturnedVersion ==
  [][InitializeResultAccepted =>
       app'.protocolVersion = Head(h2v).params.protocolVersion]_vars

\* Initialized notifications of the View on their way to the Host.
InitializedInFlight ==
  Cardinality({i \in 1..Len(v2h) :
                 v2h[i].kind = "notification" /\ v2h[i].method = M_Initialized})

C20_State ==
  /\ bridge.initializedCalls \in {0, 1}
  /\ bridge.initializedCalls = 1 =>
       /\ bridge.appCapabilities.def
       /\ app.pc \in {"notifying", "ready"}
  /\ (env.peer = "AppBridge" /\ app.pc \in {"notifying", "ready"}) =>
       bridge.initializedCalls + InitializedInFlight = 1
  /\ app.pc \notin {"notifying", "ready"} => InitializedInFlight = 0

C20_Step ==
  /\ BridgeDispatches("notification", {M_Initialized}) =>
       bridge'.initializedCalls = bridge.initializedCalls + 1
  /\ bridge'.initializedCalls # bridge.initializedCalls =>
       BridgeDispatches("notification", {M_Initialized})

----------------------------------------------------------------------------
(* Claims about the life of a connection *)

\* The state of the View endpoint: CLOSED once connect() has failed or the
\* adapter was closed, and the position of connect() before that.
ViewState ==
  IF app.pc \in {"failed", "closed"} \/ appTransport.state = "closed" THEN "CLOSED"
  ELSE IF app.pc = "unconnected" THEN "UNCONNECTED"
  ELSE IF app.pc = "connecting" THEN "CONNECTING"
  ELSE IF app.pc \in {"handshaking", "notifying"} THEN "HANDSHAKING"
  ELSE "READY"

ViewTransitions ==
  {<<"UNCONNECTED", "CONNECTING">>, <<"CONNECTING", "HANDSHAKING">>,
   <<"HANDSHAKING", "READY">>, <<"READY", "CLOSED">>,
   <<"CONNECTING", "CLOSED">>, <<"HANDSHAKING", "CLOSED">>}

\* The step in which the onteardown callback returns and its result is handed
\* to the adapter, and the step in which the adapter's close() is called.
TeardownAcknowledged ==
  \E r \in app'.teardownRuns \ app.teardownRuns : r.state = "returned"
CloseCalled == Count(viewLog', "transport.close") > Count(viewLog, "transport.close")

C21_Order ==
  ViewState' = ViewState \/ <<ViewState, ViewState'>> \in ViewTransitions

C21_End ==
  ((ViewState = "READY" /\ TeardownAcknowledged) \/ CloseCalled) => ViewState' = "CLOSED"

\* C21: once a READY View has acknowledged a teardown request of the Host, or
\* close() was called, the View endpoint is CLOSED; CLOSED is never left, and
\* the states are passed in the order UNCONNECTED, CONNECTING, HANDSHAKING,
\* READY, CLOSED, with the failure edges from CONNECTING and HANDSHAKING to CLOSED.
C21_ViewStateMachine == [][C21_Order /\ C21_End]_vars

----------------------------------------------------------------------------
(* Claims about the callbacks of the View *)

\* The step in which the View's adapter delivers a request or notification of
\* the method.
InboundDispatched(method) ==
  /\ h2v # <<>>
  /\ Head(h2v).kind \in {"request", "notification"}
  /\ Head(h2v).method = method
  /\ appTransport.state = "started"
  /\ h2v' = Tail(h2v)

\* C22: for each kind of inbound message (tool-input, tool-input-partial,
\* tool-result, tool-cancelled, host-context-changed, teardown, call-tool,
\* list-tools), once the application has assigned a callback and then another,
\* every message of the kind invokes the callback assigned last exactly once,
\* and no callback assigned earlier.
C22_OneActiveHandler ==
  [][\A k \in Kinds :
       (InboundDispatched(k) /\ app.assigned[k] >= 2) =>
         app'.invoked = Append(app.invoked, [method |-> k,
                                             callback |-> app.assigned[k],
                                             params |-> Head(h2v).params])]_vars

\* A message invoked the first callback, the application assigned a second one,
\* and a later message of the kind invoked the second.
C22_Witness ==
  \E i, j \in 1..Len(app.invoked) :
    /\ i < j
    /\ app.invoked[i].method = app.invoked[j].method
    /\ app.invoked[i].callback = 1
    /\ app.invoked[j].callback = 2

----------------------------------------------------------------------------
(* Claims about the model context *)

UpdateCalls == {c \in requests : c.method = M_UpdateModelContext}

\* The call issued last.
LastUpdate == CHOOSE c \in UpdateCalls : \A d \in UpdateCalls : d.call <= c.call

\* The step in which the Host's adapter delivers an update of the model context
\* to the onupdatemodelcontext callback.
UpdateDispatched ==
  /\ v2h # <<>>
  /\ Head(v2h).kind = "request"
  /\ Head(v2h).method = M_UpdateModelContext
  /\ M_UpdateModelContext \in bridge.requestHandlers
  /\ bridgeTransport.state = "started"
  /\ v2h' = Tail(v2h)

C23_State ==
  (UpdateCalls # {} /\ \A c \in UpdateCalls : c.state = "resolved") =>
    bridge.modelContext = Some(LastUpdate.params)

C23_Step ==
  UpdateDispatched =>
    /\ client' = client
    /\ \/ bridge' = bridge
       \/ bridge' = [bridge EXCEPT !.modelContext = Some(Head(v2h).params)]

\* C23: once every updateModelContext call of a sequence is acknowledged, the
\* context snapshot the Host holds for the next model turn is the params of the
\* last call alone, with nothing of an earlier call merged in; and handling a
\* call sends nothing upstream and changes nothing else of the Host.
C23_LastWriteWins == []C23_State /\ [][C23_Step]_vars

\* Two acknowledged calls: the first carried structuredContent, the second did
\* not, and the snapshot has none.
C23_Witness ==
  /\ Cardinality(UpdateCalls) = 2
  /\ \A c \in UpdateCalls : c.state = "resolved"
  /\ \E c \in UpdateCalls : c # LastUpdate /\ c.params.structuredContent = "s"
  /\ LastUpdate.params = [content |-> "b", structuredContent |-> Absent]
  /\ bridge.modelContext = Some(LastUpdate.params)

----------------------------------------------------------------------------
(* Claims about the channel adapter *)

\* The step in which a message of another window arrives at an endpoint's window.
ForeignArrives == Len(env'.foreign) > Len(env.foreign)

\* C24: a message whose source is not the peer the adapter was constructed for
\* is never delivered to the endpoint's handlers and changes nothing of either
\* endpoint, their callers or the channel, whatever genuine messages it is
\* interleaved with.
C24_SenderFiltering ==
  [][ForeignArrives =>
       UNCHANGED <<app, appTransport, bridge, bridgeTransport, client, v2h, h2v,
                   viewLog, ctxCallback, requests>>]_vars

\* A forged initialize result reached the View's listening adapter and a forged
\* initialize request the Host's; the View still completed the handshake with
\* the Host's own identity, and the Host holds the View's own capabilities.
C24_Witness ==
  /\ \E i \in 1..Len(env.foreign) :
       /\ env.foreign[i].to = ViewWindow
       /\ env.foreign[i].listening
       /\ env.foreign[i].m.method = M_Initialize
  /\ \E i \in 1..Len(env.foreign) :
       /\ env.foreign[i].to = HostWindow
       /\ env.foreign[i].listening
       /\ env.foreign[i].m.method = M_Initialize
  /\ app.pc = "ready"
  /\ getHostVersion = Some(HostInfo)
  /\ bridge.appCapabilities = Some([tools |-> FALSE])

\* The notifications about the tool call, whose payloads are numbered in the
\* order the Host sent them.
ToolNotificationKinds == {M_ToolInputPartial, M_ToolInput, M_ToolResult, M_ToolCancelled}

ToolNotificationsInvoked ==
  {i \in 1..Len(app.invoked) : app.invoked[i].method \in ToolNotificationKinds}

\* C25: the notifications the Host sends on the channel reach the View's
\* callbacks in the order they were sent, each at most once: a tool-input-partial
\* sent before the tool-input is dispatched before it, and a tool-input sent
\* before the tool-result is dispatched before it.
C25_NotificationOrder ==
  \A i, j \in ToolNotificationsInvoked :
    i < j => app.invoked[i].params.arguments < app.invoked[j].params.arguments

\* A partial input and then the full input were sent, and the callbacks ran in
\* that order.
C25_Witness ==
  /\ Len(app.invoked) = 2
  /\ app.invoked[1].method = M_ToolInputPartial
  /\ app.invoked[2].method = M_ToolInput
  /\ app.invoked[1].params.arguments = 1
  /\ app.invoked[2].params.arguments = 2

\* A send of the View's adapter has failed; the adapter was closed.
SendFailed == appTransport.failAt > 0 /\ appTransport.sends = appTransport.failAt
ChannelClosed == appTransport.state = "closed"

C26_State ==
  (SendFailed \/ ChannelClosed) =>
    /\ ViewState = "CLOSED"
    /\ \A c \in requests : c.state # "pending"

C26_Step ==
  (SendFailed \/ ChannelClosed) =>
    \A c \in requests' : c.state = "resolved" => c \in requests

\* C26: once the channel has failed (a send failed) or was closed, the endpoint
\* is CLOSED, every request that was outstanding is rejected, none of them stays
\* pending and none resolves afterwards.
C26_ChannelFailureIsFatal == []C26_State /\ [][C26_Step]_vars

----------------------------------------------------------------------------
(* Claims about the server helpers *)

\* The two references to the UI resource are both absent, or both present and equal.
Synchronized(meta) ==
  \/ UiResourceUri(meta) = Absent /\ meta.legacy = Absent
  \/ UiResourceUri(meta) # Absent /\ UiResourceUri(meta) = meta.legacy

\* Everything but the two references is as it was.
Preserved(meta, out) ==
  /\ out.other = meta.other
  /\ out.ui.def => out.ui.v.visibility = (IF meta.ui.def THEN meta.ui.v.visibility ELSE Absent)
  /\ meta.ui.def => out.ui.def

Registered(i) == env.registered[i]
Given(i) == IF i = 1 THEN env.config ELSE env.registered[i - 1]

C27_Preserves == \A i \in 1..Len(env.registered) : Preserved(Given(i), Registered(i))
C27_Idempotent == \A i \in 2..Len(env.registered) : Registered(i) = Registered(i - 1)

\* C27: for every _meta given to registerAppTool, the _meta it registers has
\* _meta.ui.resourceUri and _meta["ui/resourceUri"] both absent or both present
\* and equal, every other field of _meta and of ui is preserved, and
\* normalizing a normalized _meta changes nothing.
C27_MetaSynchronized ==
  /\ \A i \in 1..Len(env.registered) : Synchronized(Registered(i))
  /\ C27_Preserves
  /\ C27_Idempotent

----------------------------------------------------------------------------
(* Claims about the delivery to the Host application *)

\* The k-th call of the View application is on its way to a Host that has the
\* callback for it, and the View is connected.
SentToHost(k) ==
  /\ ViewState = "READY"
  /\ \/ \E c \in requests : \E i \in 1..Len(v2h) :
          /\ c.call = k
          /\ c.method \in {M_Message, M_OpenLink}
          /\ c.method \in bridge.requestHandlers
          /\ v2h[i].kind = "request"
          /\ v2h[i].id = c.id
     \/ \E i \in 1..Len(v2h) :
          /\ v2h[i].method = M_LoggingMessage
          /\ v2h[i].params.data = k
          /\ M_LoggingMessage \in bridge.notificationHandlers

\* The Host callback ran for the k-th call of the View application.
HostCallbackInvoked(k) ==
  \/ \E c \in requests : \E j \in 1..Len(bridge.handled) :
       /\ c.call = k
       /\ c.method \in {M_Message, M_OpenLink}
       /\ bridge.handled[j].from = c.id
  \/ \E j \in 1..Len(bridge.logs) : bridge.logs[j].data = k

\* C28: once the View is connected and the channel stays up, a ui/message or
\* ui/open-link request and a notifications/message log entry the View sends
\* eventually invoke the Host callback registered for them (onmessage,
\* onopenlink, onloggingmessage).
C28_DeliveryLiveness ==
  \A k \in 0..(MaxSends - 1) : SentToHost(k) ~> HostCallbackInvoked(k)

\* A connected View sent a request and a log entry, and both Host callbacks ran.
C28_Witness ==
  /\ ViewState = "READY"
  /\ bridge.handled # <<>>
  /\ bridge.logs # <<>>
  /\ \A k \in 0..(MaxSends - 1) : HostCallbackInvoked(k)

----------------------------------------------------------------------------
(* Claims about the handshake being one-time *)

\* The Host endpoint answers a ui/initialize request in this step.
InitializeAnswered ==
  \E i \in 1..Len(h2v') :
    /\ h2v'[i].kind = "result"
    /\ h2v'[i].method = M_Initialize
    /\ Len(h2v') = Len(h2v) + 1
    /\ i = Len(h2v')

C29_Records ==
  InitializeAnswered =>
    /\ v2h # <<>>
    /\ (~bridge.appCapabilities.def =>
          bridge'.appCapabilities = Some(Head(v2h).params.appCapabilities))

\* C29: the Host records the View's declared appCapabilities when it answers
\* ui/initialize, and once it has answered, the recorded capabilities and the
\* identities the two sides exchanged never change, whatever further
\* ui/initialize requests arrive.
C29_HandshakeOneTime ==
  [][/\ C29_Records
     /\ bridge.appCapabilities.def => bridge'.appCapabilities = bridge.appCapabilities
     /\ app.hostInfo.def => /\ app'.hostInfo = app.hostInfo
                            /\ app'.hostCapabilities = app.hostCapabilities]_vars

----------------------------------------------------------------------------
(* Claims about application data and the handshake *)

ViewApplicationMethods ==
  {M_ToolsCall, M_Message, M_UpdateModelContext, M_OpenLink, M_RequestDisplayMode}
HostApplicationMethods == {M_ToolInput, M_ToolResult, M_Teardown}

\* The handshake has completed on the endpoint: the View received the
\* initialize result, the Host received the initialized notification.
ViewHandshakeDone == app.hostCapabilities.def
HostHandshakeDone == bridge.initializedCalls > 0

IsCall(m, methods) == m.kind \in {"request", "notification"} /\ m.method \in methods

\* The step sends an application message of the View, or of the Host.
ViewSendsApplicationMessage ==
  /\ Len(v2h') = Len(v2h) + 1
  /\ SubSeq(v2h', 1, Len(v2h)) = v2h
  /\ IsCall(v2h'[Len(v2h')], ViewApplicationMethods)
HostSendsApplicationMessage ==
  /\ Len(h2v') = Len(h2v) + 1
  /\ SubSeq(h2v', 1, Len(h2v)) = h2v
  /\ IsCall(h2v'[Len(h2v')], HostApplicationMethods)

\* The step hands an application message of the peer to the endpoint's handler.
ViewProcessesApplicationMessage ==
  /\ h2v # <<>>
  /\ h2v' = Tail(h2v)
  /\ IsCall(Head(h2v), HostApplicationMethods)
  /\ Len(app'.invoked) > Len(app.invoked)
HostProcessesApplicationMessage ==
  /\ v2h # <<>>
  /\ v2h' = Tail(v2h)
  /\ IsCall(Head(v2h), ViewApplicationMethods)
  /\ \/ Len(client'.requests) > Len(client.requests)
     \/ Len(bridge'.handled) > Len(bridge.handled)
     \/ bridge'.modelContext # bridge.modelContext

C30_ViewSends == ViewSendsApplicationMessage => ViewHandshakeDone
C30_ViewProcesses == ViewProcessesApplicationMessage => ViewHandshakeDone
C30_HostSends == HostSendsApplicationMessage => HostHandshakeDone
C30_HostProcesses == HostProcessesApplicationMessage => HostHandshakeDone

\* C30: neither endpoint sends or processes an application message (View:
\* tools/call, ui/message, ui/update-model-context, ui/open-link,
\* ui/request-display-mode; Host: tool-input, tool-result, teardown) before the
\* handshake has completed on that endpoint.
C30_NoDataBeforeAgreement ==
  [][C30_ViewSends /\ C30_ViewProcesses /\ C30_HostSends /\ C30_HostProcesses]_vars

----------------------------------------------------------------------------
(* Claims about the state a failed connect() leaves behind *)

ConnectRejected == app.pc = "failed"

C31_Closed == ConnectRejected => appTransport.state = "closed" /\ ~app.transport
C31_GettersUndefined ==
  ConnectRejected =>
    /\ ~getHostCapabilities.def
    /\ ~getHostVersion.def
    /\ ~getHostContext.def
C31_NoResize == ConnectRejected => ~app.resize.started

\* The part of C31_Closed that the start failure of the adapter does not reach.
C31_ClosedAfterHandshakeFailure ==
  (ConnectRejected /\ ~StartFailed) => appTransport.state = "closed" /\ ~app.transport

\* C31: when connect() rejects, for whatever reason, the endpoint is CLOSED,
\* getHostCapabilities(), getHostVersion() and getHostContext() still return
\* undefined, and the resize subsystem has not been started.
C31_NoPartialState == C31_Closed /\ C31_GettersUndefined /\ C31_NoResize

----------------------------------------------------------------------------
(* Claims about several resize subsystems *)

Setups == 1..Len(app.setups)
NoSize == [width |-> 0, height |-> 0]

\* The step in which the animation frame callback of the i-th setup measures.
SetupMeasured(i) ==
  /\ i \in Setups
  /\ Len(app'.setups) = Len(app.setups)
  /\ app'.setups[i].closure.measurements = app.setups[i].closure.measurements + 1

\* A call of setupSizeChangedNotifications() starts from its own state and
\* schedules its own first measurement, whatever the earlier setups did.
C32_Fresh ==
  Len(app'.setups) = Len(app.setups) + 1 =>
    LET new == app'.setups[Len(app'.setups)].closure
    IN  /\ new.frames = 1
        /\ new.scheduled
        /\ new.lastWidth = 0 /\ new.lastHeight = 0
        /\ new.sent = 0
        /\ \A j \in Setups : app'.setups[j] = app.setups[j]
        /\ app'.resize = app.resize

\* A measurement reads and writes the state of its own setup only.
C32_Frame ==
  \A i \in Setups :
    SetupMeasured(i) =>
      LET old == app.setups[i].closure
          new == app'.setups[i].closure
      IN  /\ \A j \in Setups \ {i} : app'.setups[j] = app.setups[j]
          /\ app'.resize = app.resize
          /\ new.sent = old.sent + 1 <=>
               new.measured # [width |-> old.lastWidth, height |-> old.lastHeight]
          /\ new.sent \in {old.sent, old.sent + 1}

\* The first measurement of every setup sends, unless the document measures 0x0.
C32_First ==
  \A i \in Setups :
    app.setups[i].closure.measurements = 1 =>
      (app.setups[i].closure.sent = 1 <=> app.setups[i].closure.measured # NoSize)

\* C32: the scheduled flag and the last-sent width and height belong to one
\* setup of the resize subsystem: no other setup's measurement reads or writes
\* them, so each of two subsystems in one process sends its own first size
\* notification and de-duplicates on its own.
C32_ResizeStateScoped == []C32_First /\ [][C32_Fresh /\ C32_Frame]_vars

\* Two setups sent the same size once each; the first one measured that size
\* again and sent nothing.
C32_Witness ==
  /\ Len(app.setups) = 2
  /\ app.setups[1].closure.sent = 1
  /\ app.setups[2].closure.sent = 1
  /\ app.setups[1].closure.lastSent = app.setups[2].closure.lastSent
  /\ app.setups[1].closure.measurements = 2
  /\ app.setups[2].closure.measurements = 1

----------------------------------------------------------------------------
(* Claims about notifications that find no handler *)

\* A notification that finds no callback assigned leaves nothing behind.
C33_Discarded ==
  \A k \in ToolNotificationKinds :
    (InboundDispatched(k) /\ app.assigned[k] = 0) =>
      /\ app' = app
      /\ v2h' = v2h

\* The callbacks run for the message being delivered only: an assignment, or any
\* other step, calls none for a message delivered earlier.
C33_NoReplay ==
  app'.invoked # app.invoked =>
    \E k \in Kinds :
      /\ InboundDispatched(k)
      /\ app.assigned[k] > 0
      /\ app'.invoked = Append(app.invoked, [method |-> k,
                                             callback |-> app.callback[k],
                                             params |-> Head(h2v).params])

\* Once a callback is assigned, every notification of its kind that is
\* delivered calls a callback, and the assignment stays.
C33_Received ==
  \A k \in ToolNotificationKinds :
    /\ (InboundDispatched(k) /\ app.assigned[k] > 0) =>
         /\ Len(app'.invoked) = Len(app.invoked) + 1
         /\ app'.invoked[Len(app'.invoked)].method = k
         /\ app'.invoked[Len(app'.invoked)].params = Head(h2v).params
    /\ app.assigned[k] > 0 => app'.assigned[k] > 0

\* C33: a notification that arrives at the View while no handler of its kind is
\* registered is discarded, neither queued nor replayed when the application
\* assigns ontoolinput, ontoolresult and the like afterwards; a handler
\* registered before connect() receives every notification of its kind that is
\* delivered after connect() started.
C33_UnhandledDiscarded == [][C33_Discarded /\ C33_NoReplay /\ C33_Received]_vars

\* The Host sent tool-input and then another notification of the stream; both
\* were delivered, the first to its callback; the second found none, and the
\* callbacks assigned since were not called for it.
C33_Witness ==
  /\ env.kinds = StreamKinds
  /\ env.hostRequests = 2
  /\ h2v = <<>>
  /\ Len(app.invoked) = 1
  /\ app.invoked[1].method = M_ToolInput
  /\ app.invoked[1].params.arguments = 1
  /\ app.assigned[M_ToolResult] = 1
  /\ app.assigned[M_ToolInputPartial] = 1

----------------------------------------------------------------------------
(* Claims about the order of the Host's connect() *)

\* While the Host's adapter is listening, every forwarding handler the upstream
\* server's capabilities call for is installed.
C34_State ==
  bridgeTransport.state = "started" =>
    /\ client.serverCapabilities.def
    /\ ForwardedRequests(client.serverCapabilities.v) \subseteq bridge.requestHandlers
    /\ ForwardedNotifications(client.serverCapabilities.v) \subseteq bridge.notificationHandlers

\* A View request of a forwarded method that is dispatched finds its handler.
C34_Step ==
  (BridgeDispatches("request", ForwardableRequests)
     /\ client.serverCapabilities.def
     /\ Head(v2h).method \in ForwardedRequests(client.serverCapabilities.v)) =>
    /\ Head(v2h).method \in bridge.requestHandlers
    /\ Len(client'.requests) = Len(client.requests) + 1
    /\ h2v' = h2v

\* C34: AppBridge.connect() installs every forwarding request and notification
\* handler that the upstream server's capabilities call for before it starts
\* the adapter, so no View request of a forwarded method is dispatched while its
\* forwarding handler is missing.
C34_HandlersBeforeStart == []C34_State /\ [][C34_Step]_vars

\* A request the View sent ahead of its ui/initialize was the first message the
\* Host's adapter delivered, and it was forwarded.
C34_Witness ==
  /\ Len(client.requests) >= 1
  /\ ~bridge.appCapabilities.def
  /\ bridgeTransport.state = "started"

----------------------------------------------------------------------------
(* Claims about the state of the resize subsystem *)

LastSize(r) == [width |-> r.lastWidth, height |-> r.lastHeight]

C35_State ==
  LET r == app.resize
  IN  /\ LastSize(r) = (IF r.lastSent.def THEN r.lastSent.v ELSE NoSize)
      /\ r.lastSent.def <=> r.sent > 0
      /\ (r.started /\ r.measurements = 0) => r.frames = 1
      /\ r.measurements = 1 => (r.sent = 1 <=> r.measured # NoSize)

\* The notification the subsystem emits carries the pair it remembers, and the
\* pair changes in no other step.
C35_Step ==
  /\ app'.resize.sent = app.resize.sent + 1 =>
       ((app.transport /\ ~SendThrows(appTransport)) =>
          v2h' = Append(v2h, Notification(M_SizeChanged, LastSize(app'.resize))))
  /\ (app.resize.started /\ app'.resize.sent = app.resize.sent) =>
       /\ LastSize(app'.resize) = LastSize(app.resize)
       /\ ~(/\ Len(v2h') = Len(v2h) + 1
            /\ v2h'[Len(v2h')].method = M_SizeChanged)

C36_SilentAfterCleanup ==
  [][\A i \in 1..Len(app.setups) :
       ~app.setups[i].observing =>
         app'.setups[i].closure.sent = app.setups[i].closure.sent]_vars

----------------------------------------------------------------------------
(* Claims about teardown of a View without a teardown callback *)

TeardownPending(id) == [id |-> id, method |-> M_Teardown] \in bridge.pending

TeardownIds == 0..(MaxHostRequests + MaxRequests + 2)

\* The reply to a teardown request that finds no handler is a MethodNotFound
\* error, sent in the step that dispatches the request.
C37_Step ==
  (/\ h2v # <<>>
   /\ Head(h2v).kind = "request"
   /\ Head(h2v).method = M_Teardown
   /\ M_Teardown \notin app.requestHandlers
   /\ TransportDelivers(appTransport, AppEventSource, HostWindow)
   /\ h2v' = Tail(h2v)) =>
     v2h' = Append(v2h, ErrorReply(Head(h2v).id, M_Teardown, MethodNotFound))

\* The Host's teardown request is on its way to a View whose connect() has
\* started its adapter.
TeardownSentToConnectedView(id) ==
  /\ TeardownPending(id)
  /\ app.transport
  /\ appTransport.state = "started"
  /\ \E i \in 1..Len(h2v) : h2v[i] = Request(id, M_Teardown, NoParams)

C37_Settles ==
  \A id \in TeardownIds : TeardownSentToConnectedView(id) ~> ~TeardownPending(id)

\* C37: a teardown request the Host sends to a connected View that registered
\* no teardown callback still settles: the promise of sendResourceTeardown is
\* eventually rejected with the View's error reply, it does not stay pending
\* while the channel is up.
C37_TeardownSettles == C37_Settles /\ [][C37_Step]_vars

\* The Host received the MethodNotFound reply to its teardown request.
C37_Witness ==
  /\ M_Teardown \notin app.requestHandlers
  /\ \E i \in 1..Len(env.replies) :
       /\ env.replies[i].kind = "error"
       /\ env.replies[i].method = M_Teardown
       /\ ~TeardownPending(env.replies[i].id)

----------------------------------------------------------------------------
(* Claims about the cancellation of a forwarded request *)

\* The View gave up the request: its promise was rejected by the timeout or
\* signal, and notifications/cancelled was sent.
Cancelled(c) == c.state = "rejected" /\ c.value = Failure("RequestTimeout")

\* The Host endpoint dispatches notifications/cancelled for a request whose
\* upstream call is in flight.
CancelDispatched(id) ==
  /\ BridgeDispatches("notification", {M_Cancelled})
  /\ Head(v2h).params.requestId = id
  /\ \E r \in bridge.inflight : r.id = id

RepliesTo(q, id) ==
  {i \in 1..Len(q) : q[i].kind \in {"result", "error"} /\ q[i].id = id}

UpstreamResponsesTo(c, id) == {i \in 1..Len(c.responses) : c.responses[i].from = id}

C38_Abort ==
  \A c \in requests :
    CancelDispatched(c.id) =>
      /\ c.id \in client'.aborted
      /\ \A r \in bridge'.inflight : r.id # c.id
      /\ h2v' = h2v

C38_Aborted ==
  \A id \in client.aborted :
    /\ UpstreamResponsesTo(client', id) = UpstreamResponsesTo(client, id)
    /\ Cardinality(RepliesTo(h2v', id)) <= Cardinality(RepliesTo(h2v, id))

C38_LateReply ==
  \A c \in requests :
    Cancelled(c) =>
      /\ c \in requests'
      /\ \A p \in app.pending : p.id # c.id

\* C38: when the View cancels a request the Host is forwarding while the
\* upstream call is in flight, the Host aborts that upstream request through
\* the signal of the View's request, and a reply that arrives later for the
\* cancelled request resolves no promise of the View: its pending entry is
\* already discarded.
C38_ForwardedCancellation == [][C38_Abort /\ C38_Aborted /\ C38_LateReply]_vars

\* The View cancelled its tool call and the Host aborted the upstream request.
C38_Witness ==
  \E c \in requests :
    /\ Cancelled(c)
    /\ c.id \in client.aborted
    /\ Len(client.requests) = 1
    /\ client.responses = <<>>

----------------------------------------------------------------------------
(* Claims about the order of the View's handshake messages *)

\* The View hands a message of this method to its adapter.
ViewSends(method) ==
  /\ Len(v2h') = Len(v2h) + 1
  /\ v2h'[Len(v2h')].method = method

\* Nothing is sent before the ui/initialize request of connect().
C39_InitializeFirst ==
  (Len(v2h') = Len(v2h) + 1 /\ app.pc \in {"unconnected", "connecting"}) =>
    /\ app.pc = "connecting"
    /\ v2h' = Append(v2h, InitializeRequest(app))

\* The initialized notification is sent by the step that receives the result
\* of ui/initialize, with the result stored.
C39_InitializedAfterResult ==
  ViewSends(M_Initialized) =>
    /\ app.pc = "handshaking"
    /\ h2v # <<>>
    /\ Head(h2v).kind = "result"
    /\ [id |-> Head(h2v).id, method |-> M_Initialize] \in app.pending
    /\ app'.hostCapabilities = Some(Head(h2v).params.hostCapabilities)
    /\ app'.hostInfo = Some(Head(h2v).params.hostInfo)
    /\ app'.hostContext = Some(Head(h2v).params.hostContext)

\* The automatic resize subsystem is set up, and sends, only after that.
C39_SizeAfterInitialized ==
  /\ app'.resize.started => app'.pc \notin {"unconnected", "connecting", "handshaking",
                                          "notifying"}
  /\ (ViewSends(M_SizeChanged) \/ app'.resize.sent = app.resize.sent + 1) =>
       /\ app.pc = "ready"
       /\ app.hostCapabilities.def

\* C39: within one connect() the View sends the ui/initialize request first,
\* sends the ui/notifications/initialized notification only after the result of
\* initialize was received and stored, and sends no automatically generated
\* size-changed notification before the initialized notification.
C39_HandshakeOrder ==
  [][C39_InitializeFirst /\ C39_InitializedAfterResult /\ C39_SizeAfterInitialized]_vars

\* The Host was told initialized, and the View then sent the size it measured
\* by itself.
C39_Witness ==
  /\ bridge.initializedCalls = 1
  /\ app.hostCapabilities.def
  /\ AutoResize(app)
  /\ app.resize.sent >= 1

====
